---- MODULE Spec2Model ----
(***************************************************************************)
(* Sangsom Mini-Me: the CharacterController happiness / mood / animation   *)
(* state machine (character_controller.py), the game configuration         *)
(* (game_configuration.py), the UserManager profile store and the          *)
(* UserProfile progress operations (user_manager.py).                      *)
(*                                                                         *)
(* Numbers: happiness values, thresholds and rewards are the source's      *)
(* floats, all of which are whole numbers in the modelled inputs; they are *)
(* modelled as integers; eye_scale is counted in tenths (10 is 1.0).       *)
(***************************************************************************)
EXTENDS Integers, Sequences, FiniteSets, TLC

VARIABLES
    game_config,            \* CharacterController.game_config: None or the loaded GameConfigData
    happiness,              \* CharacterController._happiness
    is_animating,           \* CharacterController._is_animating
    armature,               \* CharacterController.armature is not None
    animation_data,         \* armature.animation_data is not None
    bound_action,           \* armature.animation_data.action
    bpy_actions,            \* animation names for which bpy.data.actions holds an action
    actions_cache,          \* CharacterController._actions (keys, by animation name)
    on_happiness_changed,   \* CharacterController._on_happiness_changed
    on_animation_started,   \* CharacterController._on_animation_started
    users,                  \* UserManager.users: the profile objects, in list order
    objs,                   \* the live UserProfile objects, by object identity
    current_user,           \* UserManager.current_user: a profile object or None
    doc,                    \* the user_profiles.json file
    next_uuid,              \* the next value uuid4() / datetime.now() yields
    lastOp,                 \* the public operation the last step performed
    lastArg,                \* its argument
    lastRet,                \* its return value
    notified,               \* happiness-changed callback invocations made by the last step
    started,                \* animation-started callback invocations made by the last step
    lastIO,                 \* how the file access of the last step went ("none": no access)
    raised,                 \* the last step ended with an exception reaching its caller
    deleted,                \* lower-cased usernames whose active profile was deleted and
                            \* that were not created again since
    profile_calls,          \* UserProfile progress operations called so far
    eye_scale,              \* CharacterController._eye_scale, in tenths
    current_outfit,         \* CharacterController._outfit
    current_accessory,      \* CharacterController._accessory
    scene,                  \* the host scene: the character's eye bones, mesh, material
                            \* slot, outfit materials and accessory objects
    config_doc,             \* the config.json file, where GameConfiguration reads it
    is_running,             \* GameManager.is_running
    last_update_time,       \* GameManager.last_update_time
    character_controller,   \* whether GameManager.character_controller holds a controller
    frame_change_pre        \* bpy.app.handlers.frame_change_pre, the host's handler list

ccVars == <<game_config, happiness, is_animating, armature, animation_data,
            bound_action, bpy_actions, actions_cache, on_happiness_changed,
            on_animation_started>>
umVars == <<users, objs, current_user, doc, next_uuid>>
obsVars == <<lastOp, lastArg, lastRet, notified, started>>
ioVars == <<lastIO, raised>>
histVars == <<deleted, profile_calls>>
custVars == <<eye_scale, current_outfit, current_accessory, scene>>
cfgVars == <<config_doc>>
gmVars == <<is_running, last_update_time, character_controller, frame_change_pre>>
xVars == <<custVars, cfgVars, gmVars>>
vars == <<ccVars, umVars, obsVars, ioVars, histVars, xVars>>

None == "None"
\* game_config is None
NoConfig == [absent |-> TRUE]

(***************************************************************************)
(* Bounds of the model.                                                    *)
(***************************************************************************)
MaxCallbacks == 2
MaxStartedCallbacks == 1
\* profiles the store holds at most, and identifiers drawn (by create_user
\* and by entries loaded without one) in one run
MaxUsers == 2
MaxCreated == 3
\* UserProfile progress operations called in one run
MaxProfileCalls == 2
\* the largest reading of the clock
MaxTime == 1

(***************************************************************************)
(* Python helpers.                                                         *)
(***************************************************************************)
\* builtin max(a, b) / min(a, b) on numbers
Max(a, b) == IF b > a THEN b ELSE a
Min(a, b) == IF b < a THEN b ELSE a

\* str.lower() on the strings the model uses
LowerTable == [Dance |-> "dance", DANCE |-> "dance", Wave |-> "wave",
               Alice |-> "alice", ALICE |-> "alice", Bob |-> "bob",
               Hat |-> "hat", NONE |-> "none"]
              @@ (" Uniform " :> " uniform ") @@ ("Hat " :> "hat ")
Lower(s) == IF s \in DOMAIN LowerTable THEN LowerTable[s] ELSE s

\* dict.get(key, default) / getattr(obj, key, default)
Get(d, key, default) == IF key \in DOMAIN d THEN d[key] ELSE default

(***************************************************************************)
(* game_configuration.py                                                   *)
(***************************************************************************)
\* GameConfigData(): the dataclass defaults
GameConfigData ==
    [target_fps |-> 60,
     starting_coins |-> 100,
     starting_happiness |-> 75,
     starting_days_active |-> 1,
     min_eye_scale |-> 5,           \* 0.5, in tenths
     max_eye_scale |-> 20,          \* 2.0, in tenths
     homework_xp_reward |-> 10,
     homework_coin_reward |-> 5,
     homework_happiness_reward |-> 5,
     happy_threshold |-> 70,
     sad_threshold |-> 30,
     dance_happiness_bonus |-> 2]

\* GameConfiguration.load_config on a parsed document: every key of the
\* document that is an attribute of the data object is set to the
\* document's value; other keys are skipped.
load_config(data_dict) ==
    [key \in DOMAIN GameConfigData |->
        IF key \in DOMAIN data_dict THEN data_dict[key] ELSE GameConfigData[key]]

\* Configuration documents found on disk at start-up.
ConfigDocs ==
    { [unknown_option |-> 1],
      [starting_happiness |-> 150, dance_happiness_bonus |-> 10],
      [starting_happiness |-> -20, happy_threshold |-> 95, dance_happiness_bonus |-> 5],
      [sad_threshold |-> 5, dance_happiness_bonus |-> 5],
      [happy_threshold |-> 30, sad_threshold |-> 70, dance_happiness_bonus |-> -5] }

\* What get_game_config() hands to the controller: None when the
\* game_configuration module cannot be imported, the defaults when the file
\* is missing or does not parse, else the loaded document.
GameConfigs == {NoConfig, GameConfigData} \cup { load_config(d) : d \in ConfigDocs }

\* "if self.game_config and hasattr(self.game_config, <option>)"
HasConfig(cfg) == "absent" \notin DOMAIN cfg

(***************************************************************************)
(* character_controller.py: constants                                      *)
(***************************************************************************)
\* eye scales, in tenths
DEFAULT_EYE_SCALE == 10
MIN_EYE_SCALE == 5
MAX_EYE_SCALE == 20

\* a host scene without the character's objects
EmptyScene ==
    [pose |-> FALSE, eye_bones |-> FALSE, bone_scale |-> DEFAULT_EYE_SCALE,
     mesh |-> FALSE, material_slots |-> FALSE, slot_material |-> "default",
     materials |-> {}, accessories |-> {}, visible |-> {}]

MIN_HAPPINESS == 0
MAX_HAPPINESS == 100
DEFAULT_HAPPINESS == 75

\* CharacterAnimation values
CharacterAnimation == {"idle", "dance", "wave", "wai", "curtsy", "bow"}
DANCE == "dance"

\* MoodState
VERY_HAPPY == "very_happy"
HAPPY == "happy"
NEUTRAL == "neutral"
SAD == "sad"
VERY_SAD == "very_sad"
MoodState == {VERY_HAPPY, HAPPY, NEUTRAL, SAD, VERY_SAD}

(***************************************************************************)
(* CharacterController.mood                                                *)
(***************************************************************************)
happy_thresh(cfg) == IF HasConfig(cfg) THEN cfg.happy_threshold ELSE 70
sad_thresh(cfg) == IF HasConfig(cfg) THEN cfg.sad_threshold ELSE 30

\* variant: boundaries fall into the lower bucket
mood_of_strict(h, cfg) ==
    IF h > happy_thresh(cfg) + 10 THEN VERY_HAPPY
    ELSE IF h > happy_thresh(cfg) THEN HAPPY
    ELSE IF h > sad_thresh(cfg) THEN NEUTRAL
    ELSE IF h > sad_thresh(cfg) - 10 THEN SAD
    ELSE VERY_SAD

\* variant: the two middle results exchanged
mood_of_swapped(h, cfg) ==
    IF h >= happy_thresh(cfg) + 10 THEN VERY_HAPPY
    ELSE IF h >= happy_thresh(cfg) THEN NEUTRAL
    ELSE IF h >= sad_thresh(cfg) THEN HAPPY
    ELSE IF h >= sad_thresh(cfg) - 10 THEN SAD
    ELSE VERY_SAD

mood_of(h, cfg) ==
    IF h >= happy_thresh(cfg) + 10 THEN VERY_HAPPY
    ELSE IF h >= happy_thresh(cfg) THEN HAPPY
    ELSE IF h >= sad_thresh(cfg) THEN NEUTRAL
    ELSE IF h >= sad_thresh(cfg) - 10 THEN SAD
    ELSE VERY_SAD

\* the mood property read in the current state
mood == mood_of(happiness, game_config)

(***************************************************************************)
(* Happiness management.  Each operator returns the controller's new       *)
(* happiness and the callback invocations it made, in order.               *)
(***************************************************************************)
\* _trigger_callbacks(callbacks, arg): one invocation per list entry, in
\* list order; an exception raised by a callback is caught and logged.
trigger_callbacks(callbacks, arg) ==
    [i \in 1..Len(callbacks) |-> <<callbacks[i], arg>>]

\* variant: the lower bound is not applied
clamp_happiness_upper(value) == Min(value, MAX_HAPPINESS)

clamp_happiness(value) == Max(MIN_HAPPINESS, Min(value, MAX_HAPPINESS))

\* variant: callbacks are triggered whether or not the value changed
set_happiness_always(h, callbacks, value) ==
    LET new == clamp_happiness(value)
    IN  [happiness |-> new, notified |-> trigger_callbacks(callbacks, new)]

set_happiness_eff(h, callbacks, value) ==
    LET new == clamp_happiness(value)
    IN  [happiness |-> new,
         notified  |-> IF h # new THEN trigger_callbacks(callbacks, new) ELSE <<>>]

\* variant: the amount is not checked
increase_happiness_unchecked(h, callbacks, amount) ==
    set_happiness_eff(h, callbacks, h + amount)

increase_happiness_eff(h, callbacks, amount) ==
    IF amount > 0
    THEN set_happiness_eff(h, callbacks, h + amount)
    ELSE [happiness |-> h, notified |-> <<>>]

decrease_happiness_eff(h, callbacks, amount) ==
    IF amount > 0
    THEN set_happiness_eff(h, callbacks, h - amount)
    ELSE [happiness |-> h, notified |-> <<>>]

(***************************************************************************)
(* Animation control.                                                      *)
(***************************************************************************)
\* The arguments play_animation is called with: a CharacterAnimation member,
\* a string, or a value of another type.
AnimationArgs ==
    { [kind |-> "enum", val |-> "dance"],
      [kind |-> "enum", val |-> "wave"],
      [kind |-> "str",  val |-> "Dance"],
      [kind |-> "str",  val |-> "jump"],
      [kind |-> "other", val |-> "42"] }

dance_bonus(cfg) == IF HasConfig(cfg) THEN cfg.dance_happiness_bonus ELSE 5
homework_reward(cfg) == IF HasConfig(cfg) THEN cfg.homework_happiness_reward ELSE 10

\* _find_animation_action: the cache first, then bpy.data.actions, caching a hit
find_animation_action(cache, anim_name) ==
    [found |-> anim_name \in cache \/ anim_name \in bpy_actions,
     cache |-> IF anim_name \notin cache /\ anim_name \in bpy_actions
               THEN cache \cup {anim_name} ELSE cache]

\* _apply_animation_action: createOk is whether the host's
\* animation_data_create() leaves the armature with animation data
apply_animation_action(anim_name, createOk) ==
    IF ~armature THEN [ok |-> FALSE, animation_data |-> animation_data, bound |-> bound_action]
    ELSE IF animation_data \/ createOk
         THEN [ok |-> TRUE, animation_data |-> TRUE, bound |-> anim_name]
         ELSE [ok |-> FALSE, animation_data |-> FALSE, bound |-> bound_action]

\* _apply_animation_effects
apply_animation_effects(h, anim_name) ==
    IF anim_name = DANCE
    THEN increase_happiness_eff(h, on_happiness_changed, dance_bonus(game_config))
    ELSE [happiness |-> h, notified |-> <<>>]

\* variant: a call made while an animation runs starts the new animation
play_animation_eff_restarts(h, animating, animation, createOk) ==
    LET unchanged == [ret |-> FALSE, happiness |-> h, is_animating |-> animating,
                      animation_data |-> animation_data, bound |-> bound_action,
                      cache |-> actions_cache, notified |-> <<>>, started |-> <<>>]
        anim_value == IF animation.kind = "enum" THEN animation.val ELSE Lower(animation.val)
        look == find_animation_action(actions_cache, anim_value)
        app == apply_animation_action(anim_value, createOk)
        eff == apply_animation_effects(h, anim_value)
    IN  IF ~armature THEN unchanged
        ELSE IF animation.kind \notin {"enum", "str"} THEN unchanged
        ELSE IF ~look.found THEN unchanged
        ELSE IF ~app.ok THEN [unchanged EXCEPT !.cache = look.cache]
        ELSE [ret |-> TRUE, happiness |-> eff.happiness, is_animating |-> TRUE,
              animation_data |-> app.animation_data, bound |-> app.bound,
              cache |-> look.cache, notified |-> eff.notified,
              started |-> trigger_callbacks(on_animation_started, anim_value)]
\* play_animation, started with happiness h and _is_animating = animating
play_animation_eff(h, animating, animation, createOk) ==
    LET unchanged == [ret |-> FALSE, happiness |-> h, is_animating |-> animating,
                      animation_data |-> animation_data, bound |-> bound_action,
                      cache |-> actions_cache, notified |-> <<>>, started |-> <<>>]
        anim_value == IF animation.kind = "enum" THEN animation.val ELSE Lower(animation.val)
        look == find_animation_action(actions_cache, anim_value)
        app == apply_animation_action(anim_value, createOk)
        eff == apply_animation_effects(h, anim_value)
    IN  IF animating THEN unchanged
        ELSE IF ~armature THEN unchanged
        ELSE IF animation.kind \notin {"enum", "str"} THEN unchanged
        ELSE IF ~look.found THEN unchanged
        ELSE IF ~app.ok THEN [unchanged EXCEPT !.cache = look.cache]
        ELSE [ret |-> TRUE, happiness |-> eff.happiness, is_animating |-> TRUE,
              animation_data |-> app.animation_data, bound |-> app.bound,
              cache |-> look.cache, notified |-> eff.notified,
              started |-> trigger_callbacks(on_animation_started, anim_value)]

(***************************************************************************)
(* CharacterController.__init__                                            *)
(***************************************************************************)
starting_happiness(cfg) == IF HasConfig(cfg) THEN cfg.starting_happiness ELSE DEFAULT_HAPPINESS

SceneActions == {{}, {"wave"}}

(***************************************************************************)
(* The controller's operations.                                            *)
(***************************************************************************)
InSeq(x, s) == \E i \in 1..Len(s) : s[i] = x

\* the callbacks a caller can pass: one already registered or the next new one
Callbacks(registered, limit) == 1..Min(Len(registered) + 1, limit)

add_happiness_changed_callback(callback) ==
    /\ on_happiness_changed' = IF ~InSeq(callback, on_happiness_changed)
                               THEN Append(on_happiness_changed, callback)
                               ELSE on_happiness_changed
    /\ lastOp' = "add_happiness_changed_callback"
    /\ lastArg' = callback
    /\ lastRet' = None
    /\ notified' = <<>>
    /\ started' = <<>>
    /\ UNCHANGED <<umVars, ioVars, histVars, xVars, game_config, happiness, is_animating, armature, animation_data,
                   bound_action, bpy_actions, actions_cache, on_animation_started>>

add_animation_started_callback(callback) ==
    /\ on_animation_started' = IF ~InSeq(callback, on_animation_started)
                               THEN Append(on_animation_started, callback)
                               ELSE on_animation_started
    /\ lastOp' = "add_animation_started_callback"
    /\ lastArg' = callback
    /\ lastRet' = None
    /\ notified' = <<>>
    /\ started' = <<>>
    /\ UNCHANGED <<umVars, ioVars, histVars, xVars, game_config, happiness, is_animating, armature, animation_data,
                   bound_action, bpy_actions, actions_cache, on_happiness_changed>>

HappinessStep(op, arg, eff) ==
    /\ happiness' = eff.happiness
    /\ notified' = eff.notified
    /\ lastOp' = op
    /\ lastArg' = arg
    /\ lastRet' = None
    /\ started' = <<>>
    /\ UNCHANGED <<umVars, ioVars, histVars, xVars, game_config, is_animating, armature, animation_data, bound_action,
                   bpy_actions, actions_cache, on_happiness_changed, on_animation_started>>

set_happiness(value) ==
    HappinessStep("set_happiness", value,
                  set_happiness_eff(happiness, on_happiness_changed, value))

increase_happiness(amount) ==
    HappinessStep("increase_happiness", amount,
                  increase_happiness_eff(happiness, on_happiness_changed, amount))

decrease_happiness(amount) ==
    HappinessStep("decrease_happiness", amount,
                  decrease_happiness_eff(happiness, on_happiness_changed, amount))

AnimationStep(op, arg, r, pre) ==
    /\ happiness' = r.happiness
    /\ is_animating' = r.is_animating
    /\ animation_data' = r.animation_data
    /\ bound_action' = r.bound
    /\ actions_cache' = r.cache
    /\ notified' = pre \o r.notified
    /\ started' = r.started
    /\ lastOp' = op
    /\ lastArg' = arg
    /\ UNCHANGED <<umVars, ioVars, histVars, xVars, game_config, armature, bpy_actions, on_happiness_changed,
                   on_animation_started>>

play_animation(animation, createOk) ==
    LET r == play_animation_eff(happiness, is_animating, animation, createOk)
    IN  /\ AnimationStep("play_animation", animation, r, <<>>)
        /\ lastRet' = r.ret

stop_animation ==
    /\ is_animating' = FALSE
    /\ lastOp' = "stop_animation"
    /\ lastArg' = None
    /\ lastRet' = None
    /\ notified' = <<>>
    /\ started' = <<>>
    /\ UNCHANGED <<umVars, ioVars, histVars, xVars, game_config, happiness, armature, animation_data, bound_action,
                   bpy_actions, actions_cache, on_happiness_changed, on_animation_started>>

\* CharacterController.complete_homework: the reward, then a dance unless
\* an animation is already running
complete_homework(createOk) ==
    LET inc == increase_happiness_eff(happiness, on_happiness_changed,
                                      homework_reward(game_config))
        r == IF ~is_animating
             THEN play_animation_eff(inc.happiness, is_animating,
                                     [kind |-> "enum", val |-> DANCE], createOk)
             ELSE [ret |-> FALSE, happiness |-> inc.happiness, is_animating |-> is_animating,
                   animation_data |-> animation_data, bound |-> bound_action,
                   cache |-> actions_cache, notified |-> <<>>, started |-> <<>>]
    IN  /\ AnimationStep("complete_homework", None, r, inc.notified)
        /\ lastRet' = None

\* refresh_asset_cache -> _cache_actions: the cache is rebuilt from bpy.data.actions
refresh_asset_cache ==
    /\ actions_cache' = bpy_actions
    /\ lastOp' = "refresh_asset_cache"
    /\ lastArg' = None
    /\ lastRet' = None
    /\ notified' = <<>>
    /\ started' = <<>>
    /\ UNCHANGED <<umVars, ioVars, histVars, xVars, game_config, happiness, is_animating, armature, animation_data,
                   bound_action, bpy_actions, on_happiness_changed, on_animation_started>>

\* the host scene gains an action (an animation is imported into bpy.data.actions)
host_add_action(name) ==
    /\ name \notin bpy_actions
    /\ bpy_actions' = bpy_actions \cup {name}
    /\ lastOp' = "host_add_action"
    /\ lastArg' = name
    /\ lastRet' = None
    /\ notified' = <<>>
    /\ started' = <<>>
    /\ UNCHANGED <<umVars, ioVars, histVars, xVars, game_config, happiness, is_animating, armature, animation_data,
                   bound_action, actions_cache, on_happiness_changed, on_animation_started>>

\* the values the happiness operations are called with
HappinessArgs == {-50, 0, 30, 70, 100, 150}
AmountArgs == {-5, 0, 10}

NextCharacter ==
    \/ \E cb \in Callbacks(on_happiness_changed, MaxCallbacks) : add_happiness_changed_callback(cb)
    \/ \E cb \in Callbacks(on_animation_started, MaxStartedCallbacks) :
            add_animation_started_callback(cb)
    \/ \E v \in HappinessArgs : set_happiness(v)
    \/ \E a \in AmountArgs : increase_happiness(a)
    \/ \E a \in AmountArgs : decrease_happiness(a)
    \/ \E an \in AnimationArgs, ok \in BOOLEAN : play_animation(an, ok)
    \/ stop_animation
    \/ \E ok \in BOOLEAN : complete_homework(ok)
    \/ refresh_asset_cache
    \/ host_add_action(DANCE)

(***************************************************************************)
(* user_manager.py: UserProfile                                            *)
(***************************************************************************)
\* the dataclass fields, which are the keys to_dict() writes
ProfileFields == {"user_id", "username", "display_name", "created_date",
                  "experience_points", "coins", "is_active", "eye_scale",
                  "current_outfit", "current_accessory", "homework_completed",
                  "days_active", "character_happiness"}

\* variant: a new profile starts without coins
UserProfile_penniless(kw, uuid) ==
    [user_id |-> Get(kw, "user_id", uuid),
     username |-> Get(kw, "username", ""),
     display_name |-> Get(kw, "display_name", ""),
     created_date |-> Get(kw, "created_date", uuid),
     experience_points |-> Get(kw, "experience_points", 0),
     coins |-> Get(kw, "coins", 0),
     is_active |-> Get(kw, "is_active", TRUE),
     eye_scale |-> Get(kw, "eye_scale", 10),
     current_outfit |-> Get(kw, "current_outfit", "default"),
     current_accessory |-> Get(kw, "current_accessory", "none"),
     homework_completed |-> Get(kw, "homework_completed", 0),
     days_active |-> Get(kw, "days_active", 1),
     character_happiness |-> Get(kw, "character_happiness", 75)]
\* UserProfile(**kw): the fields given, the dataclass default for the others;
\* the default_factory fields draw a new uuid and the current time
UserProfile(kw, uuid) ==
    [user_id |-> Get(kw, "user_id", uuid),
     username |-> Get(kw, "username", ""),
     display_name |-> Get(kw, "display_name", ""),
     created_date |-> Get(kw, "created_date", uuid),
     experience_points |-> Get(kw, "experience_points", 0),
     coins |-> Get(kw, "coins", 100),
     is_active |-> Get(kw, "is_active", TRUE),
     eye_scale |-> Get(kw, "eye_scale", 10),
     current_outfit |-> Get(kw, "current_outfit", "default"),
     current_accessory |-> Get(kw, "current_accessory", "none"),
     homework_completed |-> Get(kw, "homework_completed", 0),
     days_active |-> Get(kw, "days_active", 1),
     character_happiness |-> Get(kw, "character_happiness", 75)]

\* variant: the identifier is not written
to_dict_anonymous(profile) == [k \in ProfileFields \ {"user_id"} |-> profile[k]]
\* UserProfile.to_dict: asdict(self)
to_dict(profile) == [k \in ProfileFields |-> profile[k]]

\* UserProfile.from_dict: cls(**data); a key that is not a field is a TypeError
from_dict_raises(data) == ~(DOMAIN data \subseteq ProfileFields)
from_dict(data, uuid) == UserProfile(data, uuid)

(***************************************************************************)
(* user_manager.py: UserManager                                            *)
(***************************************************************************)
NoRef == 0
Absent == [kind |-> "absent", profiles |-> <<>>]
Malformed == [kind |-> "malformed", profiles |-> <<>>]
Document(profiles) == [kind |-> "json", profiles |-> profiles]

\* the profile objects of a list, in order
ProfilesOf(list, heap) == [i \in 1..Len(list) |-> heap[list[i]]]

\* variant: usernames compared as written
get_user_by_name_exact(username) ==
    LET hits == {i \in 1..Len(users) : objs[users[i]].username = username}
    IN  IF hits = {} THEN NoRef
        ELSE users[CHOOSE i \in hits : \A j \in hits : i <= j]

\* variant: only the stored username is lower-cased
get_user_by_name_stored(username) ==
    LET hits == {i \in 1..Len(users) : Lower(objs[users[i]].username) = username}
    IN  IF hits = {} THEN NoRef
        ELSE users[CHOOSE i \in hits : \A j \in hits : i <= j]

\* get_user_by_name: the first profile whose lower-cased username matches
get_user_by_name(username) ==
    LET hits == {i \in 1..Len(users) : Lower(objs[users[i]].username) = Lower(username)}
    IN  IF hits = {} THEN NoRef
        ELSE users[CHOOSE i \in hits : \A j \in hits : i <= j]

\* list.remove(x): drops the first element equal to x (dataclass equality)
list_remove(list, heap, ref) ==
    LET eq == {i \in 1..Len(list) : heap[list[i]] = heap[ref]}
        k == CHOOSE i \in eq : \A j \in eq : i <= j
    IN  [i \in 1..(Len(list) - 1) |-> IF i < k THEN list[i] ELSE list[i + 1]]

\* objects no longer referenced by the list or by current_user are reclaimed
Live(list, cur) == {list[i] : i \in 1..Len(list)} \cup (IF cur = NoRef THEN {} ELSE {cur})
Collect(heap, list, cur) == [r \in Live(list, cur) |-> heap[r]]

\* the identity of the k-th object allocated while the objects in use are live
NewRef(live, k) ==
    CHOOSE r \in 1..(Cardinality(live) + k) :
        /\ r \notin live
        /\ Cardinality({q \in 1..r : q \notin live}) = k

\* what save_profiles leaves in the file: the serialized list; the old file
\* when open() fails; a truncated file when the write fails after open()
SaveOutcomes == {"ok", "open_fails", "write_fails"}
save_profiles_eff(list, heap, outcome) ==
    IF outcome = "ok" THEN Document([i \in 1..Len(list) |-> to_dict(heap[list[i]])])
    ELSE IF outcome = "open_fails" THEN doc
    ELSE Malformed

\* variant: without the except clause
save_profiles_reraises(outcome) == outcome # "ok"
\* save_profiles: the try block spans the whole body and "except Exception"
\* prints what it caught, so no failure of the write leaves the method
save_profiles_propagates(outcome) == FALSE

\* load_profiles: the same around the read
load_profiles_propagates(readOk) == FALSE

\* the try block of load_profiles raises on document d: the file cannot be
\* read, is not JSON, or an entry does not construct a UserProfile
document_raises(d, readOk) ==
    \/ ~readOk
    \/ d.kind = "malformed"
    \/ \E i \in 1..Len(d.profiles) : from_dict_raises(d.profiles[i])

load_raises(readOk) == document_raises(doc, readOk)

\* how the read of load_profiles went
load_outcome(readOk) ==
    IF doc.kind = "absent" THEN "missing"
    ELSE IF ~readOk THEN "read_fails"
    ELSE IF load_raises(readOk) THEN "parse_fails"
    ELSE "ok"

\* load_profiles on document d: the list built from the file, or [] when the
\* file is missing or anything raises; cur stays referenced across the call
load_document(d, heap, uuid, readOk, cur) ==
    IF d.kind = "absent" \/ document_raises(d, readOk)
    THEN [users |-> <<>>, objs |-> Collect(heap, <<>>, cur), next_uuid |-> uuid]
    ELSE LET n == Len(d.profiles)
             live == Live(<<>>, cur)
             list == [i \in 1..n |-> NewRef(live, i)]
             \* each entry lacking user_id / created_date draws a new one
             missing(i) == Cardinality({j \in 1..i :
                              ~({"user_id", "created_date"} \subseteq DOMAIN d.profiles[j])})
         IN  [users |-> list,
              objs |-> [r \in live \cup {list[i] : i \in 1..n} |->
                          IF r \in live THEN heap[r]
                          ELSE LET i == CHOOSE j \in 1..n : list[j] = r
                               IN  from_dict(d.profiles[i], uuid + missing(i) - 1)],
              next_uuid |-> uuid + missing(n)]

load_profiles_eff(readOk, cur) == load_document(doc, objs, next_uuid, readOk, cur)

StoreObs(op, arg, ret) ==
    /\ lastOp' = op
    /\ lastArg' = arg
    /\ lastRet' = ret
    /\ notified' = <<>>
    /\ started' = <<>>

create_user(username, display_name, outcome) ==
    /\ \/ get_user_by_name(username) # NoRef
       \/ next_uuid <= MaxCreated /\ Len(users) < MaxUsers
    /\ IF get_user_by_name(username) # NoRef
       THEN /\ StoreObs("create_user", username, NoRef)
            /\ lastIO' = "none"
            /\ raised' = FALSE
            /\ UNCHANGED <<umVars, deleted>>
       ELSE LET ref == NewRef(DOMAIN objs, 1)
                user == UserProfile([username |-> username, display_name |-> display_name],
                                    next_uuid)
                heap == [r \in DOMAIN objs \cup {ref} |-> IF r = ref THEN user ELSE objs[r]]
            IN  /\ users' = Append(users, ref)
                /\ objs' = heap
                /\ next_uuid' = next_uuid + 1
                /\ doc' = save_profiles_eff(users', heap, outcome)
                /\ StoreObs("create_user", username, ref)
                /\ lastIO' = outcome
                /\ raised' = save_profiles_propagates(outcome)
                /\ deleted' = deleted \ {Lower(username)}
                /\ UNCHANGED current_user
    /\ UNCHANGED <<profile_calls, ccVars, xVars>>

\* variant: a deactivated profile can log in
login_user_any(username) ==
    LET user == get_user_by_name(username)
    IN  /\ IF user # NoRef
           THEN /\ current_user' = user
                /\ objs' = Collect(objs, users, user)
                /\ StoreObs("login_user", username, TRUE)
           ELSE /\ StoreObs("login_user", username, FALSE)
                /\ UNCHANGED <<current_user, objs>>
        /\ lastIO' = "none"
        /\ raised' = FALSE
        /\ UNCHANGED <<users, doc, next_uuid, histVars, ccVars, xVars>>
login_user(username) ==
    LET user == get_user_by_name(username)
    IN  /\ IF user # NoRef /\ objs[user].is_active
           THEN /\ current_user' = user
                /\ objs' = Collect(objs, users, user)
                /\ StoreObs("login_user", username, TRUE)
           ELSE /\ StoreObs("login_user", username, FALSE)
                /\ UNCHANGED <<current_user, objs>>
        /\ lastIO' = "none"
        /\ raised' = FALSE
        /\ UNCHANGED <<users, doc, next_uuid, histVars, ccVars, xVars>>

logout_user ==
    /\ current_user' = NoRef
    /\ objs' = Collect(objs, users, NoRef)
    /\ StoreObs("logout_user", None, None)
    /\ lastIO' = "none"
    /\ raised' = FALSE
    /\ UNCHANGED <<users, doc, next_uuid, histVars, ccVars, xVars>>

\* variant: the active reference survives the deletion
delete_user_keeps_active(username, outcome) ==
    LET user == get_user_by_name(username)
    IN  /\ IF user # NoRef
           THEN LET list == list_remove(users, objs, user)
                IN  /\ users' = list
                    /\ current_user' = current_user
                    /\ objs' = Collect(objs, list, current_user)
                    /\ doc' = save_profiles_eff(list, objs, outcome)
                    /\ StoreObs("delete_user", username, TRUE)
                    /\ lastIO' = outcome
                    /\ raised' = save_profiles_propagates(outcome)
                    /\ deleted' = IF current_user = user
                                  THEN deleted \cup {Lower(username)} ELSE deleted
           ELSE /\ StoreObs("delete_user", username, FALSE)
                /\ lastIO' = "none"
                /\ raised' = FALSE
                /\ UNCHANGED <<users, current_user, objs, doc, deleted>>
        /\ UNCHANGED <<next_uuid, profile_calls, ccVars, xVars>>
\* variant: every deletion logs the active user out
delete_user_logs_out(username, outcome) ==
    LET user == get_user_by_name(username)
    IN  /\ IF user # NoRef
           THEN LET list == list_remove(users, objs, user)
                IN  /\ users' = list
                    /\ current_user' = NoRef
                    /\ objs' = Collect(objs, list, NoRef)
                    /\ doc' = save_profiles_eff(list, objs, outcome)
                    /\ StoreObs("delete_user", username, TRUE)
                    /\ lastIO' = outcome
                    /\ raised' = save_profiles_propagates(outcome)
                    /\ deleted' = IF current_user = user
                                  THEN deleted \cup {Lower(username)} ELSE deleted
           ELSE /\ StoreObs("delete_user", username, FALSE)
                /\ lastIO' = "none"
                /\ raised' = FALSE
                /\ UNCHANGED <<users, current_user, objs, doc, deleted>>
        /\ UNCHANGED <<next_uuid, profile_calls, ccVars, xVars>>
delete_user(username, outcome) ==
    LET user == get_user_by_name(username)
    IN  /\ IF user # NoRef
           THEN LET list == list_remove(users, objs, user)
                    cur == IF current_user # NoRef /\ objs[current_user] = objs[user]
                           THEN NoRef ELSE current_user
                IN  /\ users' = list
                    /\ current_user' = cur
                    /\ objs' = Collect(objs, list, cur)
                    /\ doc' = save_profiles_eff(list, objs, outcome)
                    /\ StoreObs("delete_user", username, TRUE)
                    /\ lastIO' = outcome
                    /\ raised' = save_profiles_propagates(outcome)
                    /\ deleted' = IF current_user = user
                                  THEN deleted \cup {Lower(username)} ELSE deleted
           ELSE /\ StoreObs("delete_user", username, FALSE)
                /\ lastIO' = "none"
                /\ raised' = FALSE
                /\ UNCHANGED <<users, current_user, objs, doc, deleted>>
        /\ UNCHANGED <<next_uuid, profile_calls, ccVars, xVars>>

save_profiles(outcome) ==
    /\ doc' = save_profiles_eff(users, objs, outcome)
    /\ StoreObs("save_profiles", None, None)
    /\ lastIO' = outcome
    /\ raised' = save_profiles_propagates(outcome)
    /\ UNCHANGED <<users, objs, current_user, next_uuid, histVars, ccVars, xVars>>

load_profiles(readOk) ==
    LET r == load_profiles_eff(readOk, current_user)
    IN  /\ r.next_uuid <= MaxCreated + 1
        /\ users' = r.users
        /\ objs' = r.objs
        /\ next_uuid' = r.next_uuid
        /\ StoreObs("load_profiles", None, None)
        /\ lastIO' = load_outcome(readOk)
        /\ raised' = load_profiles_propagates(readOk)
        /\ UNCHANGED <<current_user, doc, histVars, ccVars, xVars>>

\* UserManager.__init__ in a new process: an empty store, then load_profiles
UserManagerInit(readOk) ==
    LET r == load_profiles_eff(readOk, NoRef)
    IN  /\ r.next_uuid <= MaxCreated + 1
        /\ users' = r.users
        /\ objs' = r.objs
        /\ next_uuid' = r.next_uuid
        /\ current_user' = NoRef
        /\ StoreObs("__init__", None, None)
        /\ lastIO' = load_outcome(readOk)
        /\ raised' = load_profiles_propagates(readOk)
        /\ UNCHANGED <<doc, histVars, ccVars, xVars>>

Usernames == {"Alice", "alice", "Bob"}
DisplayNames == {"Student"}

NextStore ==
    \/ \E u \in Usernames, d \in DisplayNames, o \in SaveOutcomes : create_user(u, d, o)
    \/ \E u \in Usernames : login_user(u)
    \/ logout_user
    \/ \E u \in Usernames, o \in SaveOutcomes : delete_user(u, o)
    \/ \E o \in SaveOutcomes : save_profiles(o)
    \/ \E ok \in BOOLEAN : load_profiles(ok)
    \/ \E ok \in BOOLEAN : UserManagerInit(ok)

(***************************************************************************)
(* user_manager.py: the progress operations of a UserProfile object        *)
(***************************************************************************)
\* UserProfile.add_experience
add_experience_eff(p, amount) ==
    [p EXCEPT !.experience_points = @ + amount]

\* UserProfile.add_coins
add_coins_eff(p, amount) ==
    [p EXCEPT !.coins = @ + amount]

\* variant: the sale goes through whatever the balance
spend_coins_always(p, amount) ==
    [profile |-> [p EXCEPT !.coins = @ - amount], ret |-> TRUE]

\* UserProfile.spend_coins: the profile afterwards and the value returned
spend_coins_eff(p, amount) ==
    IF p.coins >= amount
    THEN [profile |-> [p EXCEPT !.coins = @ - amount], ret |-> TRUE]
    ELSE [profile |-> p, ret |-> FALSE]

\* variant: the sum is stored as it comes
profile_increase_happiness_unclamped(p, amount) ==
    [p EXCEPT !.character_happiness = @ + amount]

\* UserProfile.increase_happiness
profile_increase_happiness_eff(p, amount) ==
    [p EXCEPT !.character_happiness = Min(100, Max(0, @ + amount))]

\* UserProfile.decrease_happiness
profile_decrease_happiness_eff(p, amount) ==
    [p EXCEPT !.character_happiness = Min(100, Max(0, @ - amount))]

\* variant: no coins for the homework
profile_complete_homework_unpaid(p) ==
    profile_increase_happiness_eff(
        add_experience_eff([p EXCEPT !.homework_completed = @ + 1], 10), 5)

\* UserProfile.complete_homework
profile_complete_homework_eff(p) ==
    profile_increase_happiness_eff(
        add_coins_eff(
            add_experience_eff([p EXCEPT !.homework_completed = @ + 1], 10), 5), 5)

\* UserProfile.get_level (Python's // rounds towards minus infinity, as \div)
get_level(profile) == profile.experience_points \div 100 + 1
\* variant: the caller's profile and the active profile both take the change
ProfileOp_shared(op, ref, amount, p, ret) ==
    /\ ref \in DOMAIN objs
    /\ profile_calls < MaxProfileCalls
    /\ profile_calls' = profile_calls + 1
    /\ objs' = [r \in DOMAIN objs |-> IF r \in {ref, current_user} THEN p ELSE objs[r]]
    /\ StoreObs(op, [obj |-> ref, amount |-> amount], ret)
    /\ lastIO' = "none"
    /\ raised' = FALSE
    /\ UNCHANGED <<users, current_user, doc, next_uuid, deleted, ccVars, xVars>>

\* a method call on the profile object ref, which leaves it as p and returns ret
ProfileOp(op, ref, amount, p, ret) ==
    /\ ref \in DOMAIN objs
    /\ profile_calls < MaxProfileCalls
    /\ profile_calls' = profile_calls + 1
    /\ objs' = [objs EXCEPT ![ref] = p]
    /\ StoreObs(op, [obj |-> ref, amount |-> amount], ret)
    /\ lastIO' = "none"
    /\ raised' = FALSE
    /\ UNCHANGED <<users, current_user, doc, next_uuid, deleted, ccVars, xVars>>

add_experience(ref, amount) ==
    ProfileOp("add_experience", ref, amount, add_experience_eff(objs[ref], amount), None)

add_coins(ref, amount) ==
    ProfileOp("add_coins", ref, amount, add_coins_eff(objs[ref], amount), None)

spend_coins(ref, amount) ==
    LET r == spend_coins_eff(objs[ref], amount)
    IN  ProfileOp("spend_coins", ref, amount, r.profile, r.ret)

profile_complete_homework(ref) ==
    ProfileOp("UserProfile.complete_homework", ref, None,
              profile_complete_homework_eff(objs[ref]), None)

profile_increase_happiness(ref, amount) ==
    ProfileOp("UserProfile.increase_happiness", ref, amount,
              profile_increase_happiness_eff(objs[ref], amount), None)

profile_decrease_happiness(ref, amount) ==
    ProfileOp("UserProfile.decrease_happiness", ref, amount,
              profile_decrease_happiness_eff(objs[ref], amount), None)

\* the amounts the progress operations are called with
XpArgs == {-10, 100}
CoinArgs == {-150, 5}
SpendArgs == {-5, 50, 200}
ProfileHappinessArgs == {-200, 22}
ProfileUsernames == {"Alice", "Bob"}

NextProfile ==
    \/ \E r \in DOMAIN objs, a \in XpArgs : add_experience(r, a)
    \/ \E r \in DOMAIN objs, a \in CoinArgs : add_coins(r, a)
    \/ \E r \in DOMAIN objs, a \in SpendArgs : spend_coins(r, a)
    \/ \E r \in DOMAIN objs : profile_complete_homework(r)
    \/ \E r \in DOMAIN objs, a \in ProfileHappinessArgs : profile_increase_happiness(r, a)
    \/ \E r \in DOMAIN objs, a \in ProfileHappinessArgs : profile_decrease_happiness(r, a)
    \/ \E u \in ProfileUsernames : login_user(u)
    \/ \E o \in SaveOutcomes : save_profiles(o)
    \/ \E ok \in BOOLEAN : load_profiles(ok)

(***************************************************************************)
(* character_controller.py: customization (eye scale, outfit, accessory)   *)
(* and UserProfile.set_eye_scale                                           *)
(***************************************************************************)
\* str.strip() on the names used
StripTable == (" uniform " :> "uniform") @@ ("hat " :> "hat")
Strip(s) == IF s \in DOMAIN StripTable THEN StripTable[s] ELSE s

\* the bounds set_eye_scale clamps to: the configured ones, else the class
\* constants
eye_scale_bounds(cfg) ==
    IF HasConfig(cfg) THEN [min |-> cfg.min_eye_scale, max |-> cfg.max_eye_scale]
    ELSE [min |-> MIN_EYE_SCALE, max |-> MAX_EYE_SCALE]

\* variant: only the upper bound is applied
clamp_eye_scale_upper(scale, min_scale, max_scale) == Min(scale, max_scale)

\* "scale = max(min_scale, min(scale, max_scale))"
clamp_eye_scale(scale, min_scale, max_scale) == Max(min_scale, Min(scale, max_scale))

\* UserProfile.set_eye_scale
profile_set_eye_scale_eff(p, scale) ==
    [p EXCEPT !.eye_scale = Min(MAX_EYE_SCALE, Max(MIN_EYE_SCALE, scale))]

profile_set_eye_scale(ref, scale) ==
    ProfileOp("UserProfile.set_eye_scale", ref, scale,
              profile_set_eye_scale_eff(objs[ref], scale), None)

\* a customization call of the controller: what it returns and leaves behind
CustomStep(op, arg, ret) ==
    /\ lastOp' = op
    /\ lastArg' = arg
    /\ lastRet' = ret
    /\ notified' = <<>>
    /\ started' = <<>>
    /\ UNCHANGED <<umVars, ioVars, histVars, cfgVars, gmVars, game_config, happiness, is_animating,
                   armature, animation_data, bound_action, bpy_actions, actions_cache,
                   on_happiness_changed, on_animation_started>>

\* CharacterController.set_eye_scale; a scale that is no number makes max()
\* raise, which the except clause turns into False
set_eye_scale(scale) ==
    IF scale.kind # "num"
    THEN /\ CustomStep("set_eye_scale", scale, FALSE)
         /\ UNCHANGED custVars
    ELSE LET b == eye_scale_bounds(game_config)
             clamped == clamp_eye_scale(scale.val, b.min, b.max)
             applies == armature /\ scene.pose /\ scene.eye_bones
         IN  /\ eye_scale' = clamped
             /\ scene' = IF applies THEN [scene EXCEPT !.bone_scale = clamped] ELSE scene
             /\ CustomStep("set_eye_scale", scale, applies)
             /\ UNCHANGED <<current_outfit, current_accessory>>

\* variant: the outfit is recorded once the mesh is known to exist
set_outfit_checked(outfit_name) ==
    IF outfit_name.kind # "str"
    THEN /\ CustomStep("set_outfit", outfit_name, FALSE)
         /\ UNCHANGED custVars
    ELSE LET name == Strip(Lower(outfit_name.val))
             applies == scene.mesh /\ name \in scene.materials /\ scene.material_slots
         IN  /\ current_outfit' = IF scene.mesh THEN name ELSE current_outfit
             /\ scene' = IF applies THEN [scene EXCEPT !.slot_material = name] ELSE scene
             /\ CustomStep("set_outfit", outfit_name, applies)
             /\ UNCHANGED <<eye_scale, current_accessory>>

\* CharacterController.set_outfit; a name that is no string has no lower()
set_outfit(outfit_name) ==
    IF outfit_name.kind # "str"
    THEN /\ CustomStep("set_outfit", outfit_name, FALSE)
         /\ UNCHANGED custVars
    ELSE LET name == Strip(Lower(outfit_name.val))
             applies == scene.mesh /\ name \in scene.materials /\ scene.material_slots
         IN  /\ current_outfit' = name
             /\ scene' = IF applies THEN [scene EXCEPT !.slot_material = name] ELSE scene
             /\ CustomStep("set_outfit", outfit_name, applies)
             /\ UNCHANGED <<eye_scale, current_accessory>>

\* CharacterController.set_accessory: every accessory is hidden, then the
\* one asked for, if it exists, is shown
set_accessory(accessory_name) ==
    IF accessory_name.kind # "str"
    THEN /\ CustomStep("set_accessory", accessory_name, FALSE)
         /\ UNCHANGED custVars
    ELSE LET name == Strip(Lower(accessory_name.val))
             found == name # "none" /\ name \in scene.accessories
         IN  /\ current_accessory' = name
             /\ scene' = [scene EXCEPT !.visible = IF found THEN {name} ELSE {}]
             /\ CustomStep("set_accessory", accessory_name, name = "none" \/ found)
             /\ UNCHANGED <<eye_scale, current_outfit>>

\* the values the customization operations are called with
ScaleArgs ==
    { [kind |-> "num", val |-> 1], [kind |-> "num", val |-> 5], [kind |-> "num", val |-> 15],
      [kind |-> "num", val |-> 20], [kind |-> "num", val |-> 30],
      [kind |-> "other", val |-> "big"] }
ProfileScaleArgs == {1, 15, 30}
OutfitArgs ==
    { [kind |-> "str", val |-> " Uniform "], [kind |-> "str", val |-> "casual"],
      [kind |-> "other", val |-> 7] }
AccessoryArgs ==
    { [kind |-> "str", val |-> "Hat "], [kind |-> "str", val |-> "NONE"],
      [kind |-> "str", val |-> "glasses"], [kind |-> "other", val |-> 7] }

\* the scenes the controller is constructed in
Scenes ==
    { EmptyScene,
      [EmptyScene EXCEPT !.pose = TRUE, !.mesh = TRUE, !.materials = {"uniform"}],
      [EmptyScene EXCEPT !.pose = TRUE, !.eye_bones = TRUE, !.mesh = TRUE,
                         !.material_slots = TRUE, !.materials = {"uniform"},
                         !.accessories = {"hat"}] }

NextCustomize ==
    \/ \E s \in ScaleArgs : set_eye_scale(s)
    \/ \E o \in OutfitArgs : set_outfit(o)
    \/ \E a \in AccessoryArgs : set_accessory(a)
    \/ \E r \in DOMAIN objs, s \in ProfileScaleArgs : profile_set_eye_scale(r, s)

(***************************************************************************)
(* game_configuration.py: GameConfiguration and its config.json            *)
(***************************************************************************)
\* config.json: missing, not JSON, a JSON value that is no object, or an
\* object
AbsentFile == [kind |-> "absent", data |-> <<>>]
MalformedFile == [kind |-> "malformed", data |-> <<>>]
ArrayFile == [kind |-> "array", data |-> <<>>]
JsonFile(data_dict) == [kind |-> "json", data |-> data_dict]

\* the try block of load_config raises: the file cannot be read, is no
\* JSON, or the value parsed has no items()
load_config_raises(file, readOk) ==
    ~readOk \/ file.kind \in {"malformed", "array"}

\* how the read of load_config went
load_config_outcome(file, readOk) ==
    IF file.kind = "absent" THEN "missing"
    ELSE IF ~readOk THEN "read_fails"
    ELSE IF load_config_raises(file, readOk) THEN "parse_fails"
    ELSE "ok"

\* GameConfiguration.load_config on the data object: untouched when the file
\* is missing or the try block raises, else every key of the document that
\* is an attribute of the data object is set to the document's value
load_config_file(data, file, readOk) ==
    IF file.kind = "absent" \/ load_config_raises(file, readOk) THEN data
    ELSE [key \in DOMAIN data |-> IF key \in DOMAIN file.data THEN file.data[key] ELSE data[key]]

\* save_config: asdict(self.data) written over the file; nothing when open()
\* fails, a truncated file when the write breaks off
save_config_eff(data, file, outcome) ==
    IF outcome = "ok" THEN JsonFile(data)
    ELSE IF outcome = "open_fails" THEN file
    ELSE MalformedFile

ConfigStep(op, arg, io) ==
    /\ lastOp' = op
    /\ lastArg' = arg
    /\ lastRet' = None
    /\ notified' = <<>>
    /\ started' = <<>>
    /\ lastIO' = io
    /\ raised' = FALSE
    /\ UNCHANGED <<umVars, histVars, custVars, gmVars, happiness, is_animating, armature,
                   animation_data, bound_action, bpy_actions, actions_cache,
                   on_happiness_changed, on_animation_started>>

\* GameConfiguration.__init__ in a new process: the defaults, then
\* load_config, which writes the defaults out when there is no file
GameConfigurationInit(readOk, outcome) ==
    /\ game_config' = load_config_file(GameConfigData, config_doc, readOk)
    /\ config_doc' = IF config_doc.kind = "absent"
                     THEN save_config_eff(GameConfigData, config_doc, outcome)
                     ELSE config_doc
    /\ config_doc.kind # "absent" => outcome = "ok"
    /\ ConfigStep("GameConfiguration.__init__", None, load_config_outcome(config_doc, readOk))

\* GameConfiguration.save_config
save_config(outcome) ==
    /\ config_doc' = save_config_eff(game_config, config_doc, outcome)
    /\ ConfigStep("save_config", None, outcome)
    /\ UNCHANGED game_config

\* the user edits, replaces or removes config.json
edit_config_file(file) ==
    /\ file # config_doc
    /\ config_doc' = file
    /\ ConfigStep("edit_config_file", None, "none")
    /\ UNCHANGED game_config

\* documents a user may leave in config.json
EditedConfigDocs ==
    ConfigDocs \cup
    { [starting_happiness |-> 50, unknown_option |-> 1],
      [homework_xp_reward |-> 20, homework_coin_reward |-> 0],
      [min_eye_scale |-> 10, max_eye_scale |-> 15, theme |-> 3] }

ConfigFiles == {AbsentFile, MalformedFile, ArrayFile} \cup {JsonFile(d) : d \in EditedConfigDocs}

NextConfig ==
    \/ \E ok \in BOOLEAN, o \in SaveOutcomes : GameConfigurationInit(ok, o)
    \/ \E o \in SaveOutcomes : save_config(o)
    \/ \E f \in ConfigFiles : edit_config_file(f)

(***************************************************************************)
(* game_manager.py: GameManager                                            *)
(***************************************************************************)
\* the readings of time.time() a call may get
Times == 0..MaxTime

\* what an operation of the GameManager leaves for the observer
GameObs(op, arg, io) ==
    /\ lastOp' = op
    /\ lastArg' = arg
    /\ lastRet' = None
    /\ lastIO' = io
    /\ raised' = FALSE

\* variant: the handler is registered on every start
start_game_appends(t, found) ==
    /\ is_running' = TRUE
    /\ last_update_time' = t
    /\ character_controller' = TRUE
    /\ happiness' = starting_happiness(game_config)
    /\ is_animating' = FALSE
    /\ armature' = found
    /\ actions_cache' = bpy_actions
    /\ on_happiness_changed' = <<>>
    /\ on_animation_started' = <<>>
    /\ eye_scale' = DEFAULT_EYE_SCALE
    /\ current_outfit' = "default"
    /\ current_accessory' = "none"
    /\ frame_change_pre' = Append(frame_change_pre, "update")
    /\ GameObs("start_game", None, "none")
    /\ notified' = <<>>
    /\ started' = <<>>
    /\ UNCHANGED <<umVars, histVars, cfgVars, scene, game_config, animation_data,
                   bound_action, bpy_actions>>

\* GameManager.start_game: the flag and the clock, a new
\* CharacterController("Leandi") in place of the one held (found: the scene
\* has the character's armature), and self.update registered with the
\* host's frame_change_pre handlers unless it is in the list
start_game(t, found) ==
    /\ is_running' = TRUE
    /\ last_update_time' = t
    /\ character_controller' = TRUE
    /\ happiness' = starting_happiness(game_config)
    /\ is_animating' = FALSE
    /\ armature' = found
    /\ actions_cache' = bpy_actions
    /\ on_happiness_changed' = <<>>
    /\ on_animation_started' = <<>>
    /\ eye_scale' = DEFAULT_EYE_SCALE
    /\ current_outfit' = "default"
    /\ current_accessory' = "none"
    /\ frame_change_pre' = IF ~InSeq("update", frame_change_pre)
                           THEN Append(frame_change_pre, "update")
                           ELSE frame_change_pre
    /\ GameObs("start_game", None, "none")
    /\ notified' = <<>>
    /\ started' = <<>>
    /\ UNCHANGED <<umVars, histVars, cfgVars, scene, game_config, animation_data,
                   bound_action, bpy_actions>>

\* list.remove(x) on the handler list: the first entry equal to x goes
handlers_remove(list, x) ==
    LET k == CHOOSE i \in 1..Len(list) : list[i] = x /\ \A j \in 1..(i - 1) : list[j] # x
    IN  [i \in 1..(Len(list) - 1) |-> IF i < k THEN list[i] ELSE list[i + 1]]

\* GameManager.stop_game
stop_game ==
    /\ is_running' = FALSE
    /\ frame_change_pre' = IF InSeq("update", frame_change_pre)
                           THEN handlers_remove(frame_change_pre, "update")
                           ELSE frame_change_pre
    /\ GameObs("stop_game", None, "none")
    /\ notified' = <<>>
    /\ started' = <<>>
    /\ UNCHANGED <<ccVars, umVars, histVars, custVars, cfgVars, last_update_time,
                   character_controller>>

\* GameManager.update(scene), from the host on a frame change or called
\* directly
update(t) ==
    /\ last_update_time' = IF ~is_running THEN last_update_time ELSE t
    /\ GameObs("update", None, "none")
    /\ notified' = <<>>
    /\ started' = <<>>
    /\ UNCHANGED <<ccVars, umVars, histVars, custVars, cfgVars, is_running,
                   character_controller, frame_change_pre>>

\* variant: the rewards go to every profile of the collection
GameManager_complete_homework_all(createOk, outcome) ==
    LET user == current_user
        heap == [r \in DOMAIN objs |->
                    add_coins_eff(add_experience_eff(objs[r], game_config.homework_xp_reward),
                                  game_config.homework_coin_reward)]
        inc == increase_happiness_eff(happiness, on_happiness_changed,
                                      game_config.homework_happiness_reward)
        r == play_animation_eff(inc.happiness, is_animating,
                                [kind |-> "str", val |-> "dance"], createOk)
    IN  /\ user # NoRef => profile_calls < MaxProfileCalls
        /\ IF user = NoRef
           THEN /\ GameObs("GameManager.complete_homework", None, "none")
                /\ notified' = <<>>
                /\ started' = <<>>
                /\ UNCHANGED <<umVars, histVars, happiness, is_animating, animation_data,
                               bound_action, actions_cache>>
           ELSE /\ objs' = heap
                /\ profile_calls' = profile_calls + 1
                /\ IF character_controller
                   THEN /\ happiness' = r.happiness
                        /\ is_animating' = r.is_animating
                        /\ animation_data' = r.animation_data
                        /\ bound_action' = r.bound
                        /\ actions_cache' = r.cache
                        /\ notified' = inc.notified \o r.notified
                        /\ started' = r.started
                   ELSE /\ notified' = <<>>
                        /\ started' = <<>>
                        /\ UNCHANGED <<happiness, is_animating, animation_data,
                                       bound_action, actions_cache>>
                /\ doc' = save_profiles_eff(users, heap, outcome)
                /\ GameObs("GameManager.complete_homework", None, outcome)
                /\ UNCHANGED <<users, current_user, next_uuid, deleted>>
        /\ UNCHANGED <<gmVars, custVars, cfgVars, game_config, armature, bpy_actions,
                       on_happiness_changed, on_animation_started>>

\* GameManager.complete_homework: nothing without a logged-in user; else the
\* configured xp and coins to the current user, the configured happiness
\* and a dance to the controller when there is one, then save_profiles
GameManager_complete_homework(createOk, outcome) ==
    LET user == current_user
        heap == [objs EXCEPT ![user] =
                    add_coins_eff(add_experience_eff(@, game_config.homework_xp_reward),
                                  game_config.homework_coin_reward)]
        inc == increase_happiness_eff(happiness, on_happiness_changed,
                                      game_config.homework_happiness_reward)
        r == play_animation_eff(inc.happiness, is_animating,
                                [kind |-> "str", val |-> "dance"], createOk)
    IN  /\ user # NoRef => profile_calls < MaxProfileCalls
        /\ IF user = NoRef
           THEN /\ GameObs("GameManager.complete_homework", None, "none")
                /\ notified' = <<>>
                /\ started' = <<>>
                /\ UNCHANGED <<umVars, histVars, happiness, is_animating, animation_data,
                               bound_action, actions_cache>>
           ELSE /\ objs' = heap
                /\ profile_calls' = profile_calls + 1
                /\ IF character_controller
                   THEN /\ happiness' = r.happiness
                        /\ is_animating' = r.is_animating
                        /\ animation_data' = r.animation_data
                        /\ bound_action' = r.bound
                        /\ actions_cache' = r.cache
                        /\ notified' = inc.notified \o r.notified
                        /\ started' = r.started
                   ELSE /\ notified' = <<>>
                        /\ started' = <<>>
                        /\ UNCHANGED <<happiness, is_animating, animation_data,
                                       bound_action, actions_cache>>
                /\ doc' = save_profiles_eff(users, heap, outcome)
                /\ GameObs("GameManager.complete_homework", None, outcome)
                /\ UNCHANGED <<users, current_user, next_uuid, deleted>>
        /\ UNCHANGED <<gmVars, custVars, cfgVars, game_config, armature, bpy_actions,
                       on_happiness_changed, on_animation_started>>

\* the configurations a game runs with: the defaults and two edited files
GameManagerConfigs ==
    { GameConfigData,
      load_config([homework_xp_reward |-> 20, homework_coin_reward |-> 0]),
      load_config([starting_happiness |-> 95, homework_happiness_reward |-> 0,
                   dance_happiness_bonus |-> 10]) }

NextGame ==
    \/ \E t \in Times, found \in BOOLEAN : start_game(t, found)
    \/ stop_game
    \/ \E t \in Times : update(t)
    \/ \E createOk \in BOOLEAN, o \in SaveOutcomes : GameManager_complete_homework(createOk, o)
    \/ \E n \in ProfileUsernames : login_user(n)
    \/ logout_user
    \/ stop_animation
    \/ host_add_action(DANCE)

MoodArgs == {-50, 0, 10, 20, 30, 50, 65, 70, 80, 90, 100, 150}

NextMood ==
    \/ \E v \in MoodArgs : set_happiness(v)
    \/ \E a \in AmountArgs : increase_happiness(a)
    \/ \E a \in AmountArgs : decrease_happiness(a)

\* CharacterController.__init__ in a scene, with the configuration found at
\* start-up; the store is the empty one of a first run
InitCharacter ==
    /\ game_config \in GameConfigs
    /\ happiness = starting_happiness(game_config)
    /\ is_animating = FALSE
    /\ armature \in BOOLEAN
    /\ animation_data = FALSE
    /\ bound_action = None
    /\ bpy_actions \in SceneActions
    /\ actions_cache = bpy_actions
    /\ on_happiness_changed = <<>>
    /\ on_animation_started = <<>>
    /\ doc = Absent
    /\ users = <<>>
    /\ objs = [r \in {} |-> 0]
    /\ current_user = NoRef
    /\ next_uuid = 1
    /\ eye_scale = DEFAULT_EYE_SCALE
    /\ current_outfit = "default"
    /\ current_accessory = "none"
    /\ scene = EmptyScene
    /\ config_doc = JsonFile(GameConfigData)
    /\ is_running = FALSE
    /\ last_update_time = 0
    /\ character_controller = FALSE
    /\ frame_change_pre = <<>>
    /\ lastOp = "init"
    /\ lastArg = None
    /\ lastRet = None
    /\ notified = <<>>
    /\ started = <<>>
    /\ lastIO = "none"
    /\ raised = FALSE
    /\ deleted = {}
    /\ profile_calls = 0

\* the controller with the configuration found at start-up, in a scene
\* without character objects
InitMood ==
    /\ game_config \in GameConfigs
    /\ happiness = starting_happiness(game_config)
    /\ is_animating = FALSE
    /\ armature = FALSE
    /\ animation_data = FALSE
    /\ bound_action = None
    /\ bpy_actions = {}
    /\ actions_cache = {}
    /\ on_happiness_changed = <<>>
    /\ on_animation_started = <<>>
    /\ doc = Absent
    /\ users = <<>>
    /\ objs = [r \in {} |-> 0]
    /\ current_user = NoRef
    /\ next_uuid = 1
    /\ eye_scale = DEFAULT_EYE_SCALE
    /\ current_outfit = "default"
    /\ current_accessory = "none"
    /\ scene = EmptyScene
    /\ config_doc = JsonFile(GameConfigData)
    /\ is_running = FALSE
    /\ last_update_time = 0
    /\ character_controller = FALSE
    /\ frame_change_pre = <<>>
    /\ lastOp = "init"
    /\ lastArg = None
    /\ lastRet = None
    /\ notified = <<>>
    /\ started = <<>>
    /\ lastIO = "none"
    /\ raised = FALSE
    /\ deleted = {}
    /\ profile_calls = 0

\* the documents found at the first start: none, an unparseable one, one of
\* an older version (fields missing, a deactivated profile) and one carrying
\* a key that is no UserProfile field
FoundDocuments ==
    {Absent, Malformed,
     Document(<<[username |-> "Bob", display_name |-> "Student", is_active |-> FALSE,
                 experience_points |-> 250, coins |-> 40, eye_scale |-> 15,
                 current_outfit |-> "uniform", homework_completed |-> 3,
                 days_active |-> 4, character_happiness |-> 30]>>),
     Document(<<[username |-> "Bob", display_name |-> "Student", coins |-> 40],
                [user_id |-> 90, created_date |-> 90, username |-> "Alice",
                 display_name |-> "Student", nickname |-> "Al"]>>)}

\* UserManager.__init__ on the document found; the controller is the one
\* constructed without configuration or scene objects
InitStore ==
    /\ doc \in FoundDocuments
    /\ users = load_document(doc, <<>>, 1, TRUE, NoRef).users
    /\ objs = load_document(doc, <<>>, 1, TRUE, NoRef).objs
    /\ next_uuid = load_document(doc, <<>>, 1, TRUE, NoRef).next_uuid
    /\ current_user = NoRef
    /\ game_config = NoConfig
    /\ happiness = starting_happiness(game_config)
    /\ is_animating = FALSE
    /\ armature = FALSE
    /\ animation_data = FALSE
    /\ bound_action = None
    /\ bpy_actions = {}
    /\ actions_cache = {}
    /\ on_happiness_changed = <<>>
    /\ on_animation_started = <<>>
    /\ eye_scale = DEFAULT_EYE_SCALE
    /\ current_outfit = "default"
    /\ current_accessory = "none"
    /\ scene = EmptyScene
    /\ config_doc = JsonFile(GameConfigData)
    /\ is_running = FALSE
    /\ last_update_time = 0
    /\ character_controller = FALSE
    /\ frame_change_pre = <<>>
    /\ lastOp = "__init__"
    /\ lastArg = None
    /\ lastRet = None
    /\ notified = <<>>
    /\ started = <<>>
    /\ lastIO = load_outcome(TRUE)
    /\ raised = load_profiles_propagates(TRUE)
    /\ deleted = {}
    /\ profile_calls = 0

\* the store after create_user("Alice"), create_user("Bob") and
\* login_user("Bob"), every write having succeeded
InitProfile ==
    /\ users = <<1, 2>>
    /\ objs = [r \in {1, 2} |->
                 UserProfile([username |-> IF r = 1 THEN "Alice" ELSE "Bob",
                              display_name |-> "Student"], r)]
    /\ current_user = 2
    /\ doc = Document([i \in 1..2 |-> to_dict(objs[users[i]])])
    /\ next_uuid = 3
    /\ game_config = NoConfig
    /\ happiness = starting_happiness(game_config)
    /\ is_animating = FALSE
    /\ armature = FALSE
    /\ animation_data = FALSE
    /\ bound_action = None
    /\ bpy_actions = {}
    /\ actions_cache = {}
    /\ on_happiness_changed = <<>>
    /\ on_animation_started = <<>>
    /\ eye_scale = DEFAULT_EYE_SCALE
    /\ current_outfit = "default"
    /\ current_accessory = "none"
    /\ scene = EmptyScene
    /\ config_doc = JsonFile(GameConfigData)
    /\ is_running = FALSE
    /\ last_update_time = 0
    /\ character_controller = FALSE
    /\ frame_change_pre = <<>>
    /\ lastOp = "login_user"
    /\ lastArg = "Bob"
    /\ lastRet = TRUE
    /\ notified = <<>>
    /\ started = <<>>
    /\ lastIO = "none"
    /\ raised = FALSE
    /\ deleted = {}
    /\ profile_calls = 0

\* a controller constructed in one of the scenes, with the default
\* configuration or none, next to the store of InitProfile
InitCustomize ==
    /\ users = <<1, 2>>
    /\ objs = [r \in {1, 2} |->
                 UserProfile([username |-> IF r = 1 THEN "Alice" ELSE "Bob",
                              display_name |-> "Student"], r)]
    /\ current_user = 2
    /\ doc = Document([i \in 1..2 |-> to_dict(objs[users[i]])])
    /\ next_uuid = 3
    /\ game_config \in {NoConfig, GameConfigData}
    /\ happiness = starting_happiness(game_config)
    /\ is_animating = FALSE
    /\ armature \in BOOLEAN
    /\ animation_data = FALSE
    /\ bound_action = None
    /\ bpy_actions = {}
    /\ actions_cache = {}
    /\ on_happiness_changed = <<>>
    /\ on_animation_started = <<>>
    /\ eye_scale = DEFAULT_EYE_SCALE
    /\ current_outfit = "default"
    /\ current_accessory = "none"
    /\ scene \in Scenes
    /\ config_doc = JsonFile(GameConfigData)
    /\ is_running = FALSE
    /\ last_update_time = 0
    /\ character_controller = FALSE
    /\ frame_change_pre = <<>>
    /\ lastOp = "init"
    /\ lastArg = None
    /\ lastRet = None
    /\ notified = <<>>
    /\ started = <<>>
    /\ lastIO = "none"
    /\ raised = FALSE
    /\ deleted = {}
    /\ profile_calls = 0

\* GameConfiguration() at the first start, on whatever config.json is there
InitConfig ==
    /\ \E f \in ConfigFiles :
          /\ game_config = load_config_file(GameConfigData, f, TRUE)
          /\ config_doc = IF f.kind = "absent" THEN JsonFile(GameConfigData) ELSE f
          /\ lastIO = load_config_outcome(f, TRUE)
    /\ happiness = DEFAULT_HAPPINESS
    /\ is_animating = FALSE
    /\ armature = FALSE
    /\ animation_data = FALSE
    /\ bound_action = None
    /\ bpy_actions = {}
    /\ actions_cache = {}
    /\ on_happiness_changed = <<>>
    /\ on_animation_started = <<>>
    /\ doc = Absent
    /\ users = <<>>
    /\ objs = <<>>
    /\ current_user = NoRef
    /\ next_uuid = 1
    /\ eye_scale = DEFAULT_EYE_SCALE
    /\ current_outfit = "default"
    /\ current_accessory = "none"
    /\ scene = EmptyScene
    /\ is_running = FALSE
    /\ last_update_time = 0
    /\ character_controller = FALSE
    /\ frame_change_pre = <<>>
    /\ lastOp = "GameConfiguration.__init__"
    /\ lastArg = None
    /\ lastRet = None
    /\ notified = <<>>
    /\ started = <<>>
    /\ raised = FALSE
    /\ deleted = {}
    /\ profile_calls = 0

\* GameManager() next to the store of InitProfile with nobody logged in: no
\* controller yet, not running, the host's handler list without update
InitGame ==
    /\ game_config \in GameManagerConfigs
    /\ is_running = FALSE
    /\ last_update_time = 0
    /\ character_controller = FALSE
    /\ frame_change_pre \in {<<>>, <<"other">>}
    /\ users = <<1, 2>>
    /\ objs = [r \in {1, 2} |->
                 UserProfile([username |-> IF r = 1 THEN "Alice" ELSE "Bob",
                              display_name |-> "Student"], r)]
    /\ current_user = NoRef
    /\ doc = Document([i \in 1..2 |-> to_dict(objs[users[i]])])
    /\ next_uuid = 3
    /\ happiness = starting_happiness(game_config)
    /\ is_animating = FALSE
    /\ armature = FALSE
    /\ animation_data = FALSE
    /\ bound_action = None
    /\ bpy_actions = {}
    /\ actions_cache = {}
    /\ on_happiness_changed = <<>>
    /\ on_animation_started = <<>>
    /\ eye_scale = DEFAULT_EYE_SCALE
    /\ current_outfit = "default"
    /\ current_accessory = "none"
    /\ scene = EmptyScene
    /\ config_doc = JsonFile(game_config)
    /\ lastOp = "GameManager.__init__"
    /\ lastArg = None
    /\ lastRet = None
    /\ notified = <<>>
    /\ started = <<>>
    /\ lastIO = "none"
    /\ raised = FALSE
    /\ deleted = {}
    /\ profile_calls = 0

(***************************************************************************)
(* Specifications: the character controller, the mood as a function of the *)
(* happiness and the configured thresholds, the profile store, and the     *)
(* progress operations on the profiles of a store.                         *)
(***************************************************************************)
SpecMood == InitMood /\ [][NextMood]_vars

SpecCharacter == InitCharacter /\ [][NextCharacter]_vars

SpecStore == InitStore /\ [][NextStore]_vars

SpecProfile == InitProfile /\ [][NextProfile]_vars

SpecCustomize == InitCustomize /\ [][NextCustomize]_vars

SpecConfig == InitConfig /\ [][NextConfig]_vars

SpecGame == InitGame /\ [][NextGame]_vars

(***************************************************************************)
(* Properties.                                                             *)
(***************************************************************************)
\* clamp(x, lo, hi) as the specification writes it
Clamp(x, lo, hi) == IF x < lo THEN lo ELSE IF x > hi THEN hi ELSE x

\* the invocations the last step made of one happiness-changed observer
CallsOf(cb, calls) == {k \in 1..Len(calls) : calls[k][1] = cb}

\* C1: in every state of a controller reachable from construction (with any
\* configured starting_happiness) by set_happiness, increase_happiness,
\* decrease_happiness, play_animation and complete_homework, the happiness
\* lies in [0, 100].
C1_HappinessInRange == happiness >= 0 /\ happiness <= 100

\* C2: set_happiness(x) leaves happiness = clamp(x, 0, 100) for every x;
\* increase_happiness(a) and decrease_happiness(a) with a > 0 leave
\* clamp(h + a, 0, 100) and clamp(h - a, 0, 100), h the happiness before.
C2_ClampedWrites ==
    [][ /\ lastOp' = "set_happiness" => happiness' = Clamp(lastArg', 0, 100)
        /\ (lastOp' = "increase_happiness" /\ lastArg' > 0)
              => happiness' = Clamp(happiness + lastArg', 0, 100)
        /\ (lastOp' = "decrease_happiness" /\ lastArg' > 0)
              => happiness' = Clamp(happiness - lastArg', 0, 100) ]_vars

C2_Witness ==
    /\ lastOp \in {"set_happiness", "increase_happiness"}
    /\ lastArg > 100
    /\ happiness = 100

\* C3: set_happiness(v) invokes every registered happiness-changed observer
\* exactly once, with the new clamped value, when the clamped value differs
\* from the happiness before the call, and invokes none when it is equal.
C3_ObserversNotifiedOnChange ==
    [][ lastOp' = "set_happiness" =>
          LET new == Clamp(lastArg', 0, 100)
          IN  IF new # happiness
              THEN /\ \A i \in 1..Len(on_happiness_changed) :
                        /\ Cardinality(CallsOf(on_happiness_changed[i], notified')) = 1
                        /\ \A k \in CallsOf(on_happiness_changed[i], notified') :
                              notified'[k][2] = new
                   /\ \A k \in 1..Len(notified') :
                        InSeq(notified'[k][1], on_happiness_changed)
              ELSE notified' = <<>> ]_vars

C3_Witness ==
    /\ lastOp = "set_happiness"
    /\ Len(on_happiness_changed) >= 2
    /\ Len(notified) = Len(on_happiness_changed)
    /\ lastArg = 150

\* C4: increase_happiness(amount) and decrease_happiness(amount) with
\* amount <= 0 leave the happiness unchanged and notify no observer.
C4_NonPositiveAmountIsNoOp ==
    [][ (lastOp' \in {"increase_happiness", "decrease_happiness"} /\ lastArg' <= 0)
          => (happiness' = happiness /\ notified' = <<>>) ]_vars

C4_Witness ==
    /\ lastOp \in {"increase_happiness", "decrease_happiness"}
    /\ lastArg < 0
    /\ on_happiness_changed # <<>>
    /\ happiness \in 1..99

DefaultThresholds ==
    \/ ~HasConfig(game_config)
    \/ HasConfig(game_config) /\ game_config = GameConfigData

\* C6: with the default configuration the mood buckets are those of the
\* MoodState definition and of test_mood_states: 80-100 VERY_HAPPY, 60-80
\* HAPPY, 40-60 NEUTRAL, 20-40 SAD, 0-20 VERY_SAD; after set_happiness of
\* 90, 70, 50, 30, 10 the mood is VERY_HAPPY, HAPPY, NEUTRAL, SAD, VERY_SAD.
C6_DocumentedBuckets ==
    DefaultThresholds =>
        /\ (happiness > 80 /\ happiness <= 100) => mood = VERY_HAPPY
        /\ (happiness > 60 /\ happiness < 80) => mood = HAPPY
        /\ (happiness > 40 /\ happiness < 60) => mood = NEUTRAL
        /\ (happiness > 20 /\ happiness < 40) => mood = SAD
        /\ (happiness >= 0 /\ happiness < 20) => mood = VERY_SAD
        /\ lastOp = "set_happiness" =>
              /\ lastArg = 90 => mood = VERY_HAPPY
              /\ lastArg = 70 => mood = HAPPY
              /\ lastArg = 50 => mood = NEUTRAL
              /\ lastArg = 30 => mood = SAD
              /\ lastArg = 10 => mood = VERY_SAD

\* the moods in order, and the scores of [0, 100] that map to a mood
Rank(m) == CASE m = VERY_SAD -> 0 [] m = SAD -> 1 [] m = NEUTRAL -> 2
             [] m = HAPPY -> 3 [] m = VERY_HAPPY -> 4
Scores == 0..100
Bucket(m) == {x \in Scores : mood_of(x, game_config) = m}
\* a set of scores is one run: at most one member has no predecessor in it
Contiguous(S) == Cardinality({x \in S : x - 1 \notin S}) <= 1
MoodMonotone ==
    \A x \in Scores \ {100} :
        Rank(mood_of(x, game_config)) <= Rank(mood_of(x + 1, game_config))
BucketsPartition ==
    /\ \A m \in MoodState : Contiguous(Bucket(m))
    /\ \A x \in Scores : Cardinality({m \in MoodState : x \in Bucket(m)}) = 1
FiveBuckets == \A m \in MoodState : Bucket(m) # {}
ThresholdsOrdered == happy_thresh(game_config) > sad_thresh(game_config)

\* C7 as stated: for all thresholds (h, s) with h > s the mood is
\* monotonically non-increasing as happiness decreases over [0, 100] and the
\* score range is partitioned into exactly five contiguous buckets.
C7_ExactlyFiveBuckets ==
    ThresholdsOrdered => (MoodMonotone /\ BucketsPartition /\ FiveBuckets)

\* C7 amended: for all thresholds (h, s) with h > s the mood is monotonically
\* non-increasing as happiness decreases over [0, 100] and the score range
\* is partitioned into contiguous buckets without gap or overlap, five of
\* them exactly when s > 10 and h <= 90 and fewer otherwise.
C7_BucketsOfOrderedThresholds ==
    ThresholdsOrdered =>
        /\ MoodMonotone
        /\ BucketsPartition
        /\ FiveBuckets <=> (sad_thresh(game_config) > 10 /\ happy_thresh(game_config) <= 90)

C7_Witness ==
    /\ ThresholdsOrdered
    /\ happy_thresh(game_config) > 90
    /\ lastOp = "set_happiness"
    /\ happiness = 100
    /\ mood = HAPPY

\* "current_user in self.users"
ActiveInCollection ==
    \E i \in 1..Len(users) : objs[users[i]] = objs[current_user]

\* C8: in every state of the store reachable by create_user, delete_user,
\* login_user, logout_user, save_profiles and load_profiles, the active
\* profile, if set, is one of the profiles in the collection.
C8_ActiveProfileInCollection == current_user # NoRef => ActiveInCollection

C10_CreateConflictChangesNothing ==
    [][ (/\ lastOp' = "create_user"
         /\ \E i \in 1..Len(users) :
               Lower(objs[users[i]].username) = Lower(lastArg'))
          => /\ lastRet' = NoRef
             /\ users' = users
             /\ objs' = objs
             /\ current_user' = current_user
             /\ doc' = doc ]_vars

C10_Witness ==
    /\ lastOp = "create_user"
    /\ lastArg = "alice"
    /\ lastRet = NoRef
    /\ \E i \in 1..Len(users) : objs[users[i]].username = "Alice"

\* the step is a create_user call that returned a profile
CreatedUser == lastOp' = "create_user" /\ lastRet' # NoRef

\* the collection after the step is the one before with one new profile,
\* the one returned, at its end, carrying the starting values
AppendedOneNewProfile ==
    /\ Len(users') = Len(users) + 1
    /\ \A i \in 1..Len(users) : users'[i] = users[i] /\ objs'[users[i]] = objs[users[i]]
    /\ users'[Len(users')] = lastRet'
    /\ \A i \in 1..Len(users) : users[i] # lastRet'
    /\ objs'[lastRet'].username = lastArg'
    /\ objs'[lastRet'].coins = 100
    /\ objs'[lastRet'].character_happiness = 75
    /\ objs'[lastRet'].eye_scale = 10
    /\ objs'[lastRet'].current_outfit = "default"
    /\ objs'[lastRet'].current_accessory = "none"
    /\ objs'[lastRet'].experience_points = 0

\* the document after the step is the serialization of the collection after it
DocumentIsCollection == doc' = Document(ProfilesOf(users', objs'))

\* C11 as stated: a successful create_user appends exactly one new profile at
\* the end of the collection (the others and their order unchanged) with
\* coins 100, happiness 75, eye scale 1.0, outfit "default", accessory
\* "none" and experience 0, and the persisted document then represents
\* exactly the in-memory collection.
C11_CreateAppendsAndDocumentFollows ==
    [][ CreatedUser => AppendedOneNewProfile /\ DocumentIsCollection ]_vars

\* C11, amended: a successful create_user appends exactly one new profile
\* with the starting values at the end of the collection and calls
\* save_profiles; the document represents the collection when that write
\* succeeds, is the old one when the file could not be opened and an
\* unparseable one when the write broke off.
C11_CreateAppendsAndSaves ==
    [][ CreatedUser =>
          /\ AppendedOneNewProfile
          /\ lastIO' \in SaveOutcomes
          /\ lastIO' = "ok" => DocumentIsCollection
          /\ lastIO' = "open_fails" => doc' = doc
          /\ lastIO' = "write_fails" => doc' = Malformed ]_vars

C11_Witness ==
    /\ lastOp = "create_user"
    /\ lastRet # NoRef
    /\ lastIO = "ok"
    /\ Len(users) = 2
    /\ users[2] = lastRet
    /\ doc = Document(ProfilesOf(users, objs))

\* the positions of the active profiles whose username is the one given,
\* letter case aside
ActiveMatches(username) ==
    {i \in 1..Len(users) : /\ Lower(objs[users[i]].username) = Lower(username)
                           /\ objs[users[i]].is_active}

\* C12: login_user(username) returns True and makes that profile the active
\* one exactly when a profile with that username (case-insensitive) exists
\* and its is_active is true; otherwise it returns False, raises nothing and
\* leaves the active reference as it was.
C12_LoginExactlyActiveMatch ==
    [][ lastOp' = "login_user" =>
          /\ lastRet' = (ActiveMatches(lastArg') # {})
          /\ lastRet' => /\ current_user' \in {users[i] : i \in ActiveMatches(lastArg')}
                         /\ objs'[current_user'] = objs[current_user']
          /\ ~lastRet' => current_user' = current_user
          /\ ~raised'
          /\ users' = users ]_vars

C12_Witness ==
    /\ lastOp = "login_user"
    /\ lastRet = FALSE
    /\ current_user # NoRef
    /\ \E i \in 1..Len(users) : /\ Lower(objs[users[i]].username) = Lower(lastArg)
                                /\ ~objs[users[i]].is_active

\* the lower-cased usernames of the profiles of a list
NamesOf(list, heap) == {Lower(heap[list[i]].username) : i \in 1..Len(list)}

\* the step is a successful delete_user of the profile that is the active one
DeletedActiveUser ==
    /\ lastOp' = "delete_user"
    /\ lastRet' = TRUE
    /\ current_user # NoRef
    /\ current_user = get_user_by_name(lastArg')

\* C13 as stated: after delete_user(u) succeeds on the currently active user
\* the active reference is cleared, and every later login_user(u) fails
\* until a profile with that username is created again.
C13_DeletedUserOutUntilCreated ==
    [][ /\ DeletedActiveUser => current_user' = NoRef
        /\ (lastOp' = "login_user" /\ Lower(lastArg') \in deleted)
              => lastRet' = FALSE ]_vars

\* C13, amended: after delete_user(u) succeeds on the currently active user
\* the active reference is cleared and no profile named u is in the
\* collection; login_user(u) fails for as long as none is, and one comes
\* back only by create_user or by a load of the document (load_profiles, a
\* restart), which still holds it when the write of the delete failed.
C13_DeletedUserOutUntilBack ==
    [][ /\ DeletedActiveUser => /\ current_user' = NoRef
                                /\ Lower(lastArg') \notin NamesOf(users', objs')
                                /\ Lower(lastArg') \in deleted'
        /\ (lastOp' = "login_user" /\ Lower(lastArg') \notin NamesOf(users, objs))
              => lastRet' = FALSE
        /\ \A u \in deleted :
              (u \notin NamesOf(users, objs) /\ u \in NamesOf(users', objs'))
                 => lastOp' \in {"create_user", "load_profiles", "__init__"} ]_vars

C13_Witness ==
    /\ lastOp = "login_user"
    /\ Lower(lastArg) \in deleted
    /\ lastRet = FALSE
    /\ Len(users) >= 1
    /\ doc.kind = "json"
    /\ Len(doc.profiles) = Len(users)

\* the position of the profile delete_user(username) removes, 0 when no
\* username matches
MatchOf(username) ==
    LET hits == {i \in 1..Len(users) : Lower(objs[users[i]].username) = Lower(username)}
    IN  IF hits = {} THEN 0 ELSE CHOOSE i \in hits : \A j \in hits : i <= j

\* the step took the k-th profile, and nothing else, out of the collection
RemovedOnly(k) ==
    /\ Len(users') = Len(users) - 1
    /\ \A i \in 1..Len(users') :
          /\ users'[i] = IF i < k THEN users[i] ELSE users[i + 1]
          /\ objs'[users'[i]] = objs[users'[i]]

\* the step left the active reference, and the profile it denotes, alone
ActiveKept ==
    /\ current_user' = current_user
    /\ current_user # NoRef => objs'[current_user] = objs[current_user]

\* what delete_user does to collection and active reference, found or not
DeleteFrame ==
    IF MatchOf(lastArg') = 0
    THEN /\ lastRet' = FALSE
         /\ users' = users
         /\ objs' = objs
         /\ current_user' = current_user
         /\ doc' = doc
    ELSE /\ lastRet' = TRUE
         /\ RemovedOnly(MatchOf(lastArg'))
         /\ (current_user = NoRef \/ objs[current_user] # objs[users[MatchOf(lastArg')]])
               => ActiveKept

\* C14 as stated: delete_user with no match returns False and changes
\* neither collection, active profile nor document; with a match it removes
\* exactly that profile, leaves the active reference unchanged when the
\* deleted profile was not the active one, returns True, and the store is
\* persisted.
C14_DeleteFrameAndPersisted ==
    [][ lastOp' = "delete_user" =>
          /\ DeleteFrame
          /\ MatchOf(lastArg') # 0 => DocumentIsCollection ]_vars

\* C14, amended: the same frame, and with a match save_profiles is called:
\* the document represents the collection when the write succeeds, is the
\* old one when the file could not be opened and an unparseable one when
\* the write broke off.
C14_DeleteFrameAndSaves ==
    [][ lastOp' = "delete_user" =>
          /\ DeleteFrame
          /\ MatchOf(lastArg') # 0 =>
                /\ lastIO' \in SaveOutcomes
                /\ lastIO' = "ok" => DocumentIsCollection
                /\ lastIO' = "open_fails" => doc' = doc
                /\ lastIO' = "write_fails" => doc' = Malformed ]_vars

C14_Witness ==
    /\ lastOp = "delete_user"
    /\ lastRet = TRUE
    /\ lastIO = "ok"
    /\ current_user # NoRef
    /\ Len(users) = 1
    /\ users[1] = current_user
    /\ doc = Document(ProfilesOf(users, objs))

\* the step is a load of the document, which could be read, into the store
\* (load_profiles) or into a new one (a restart)
LoadedReadable ==
    /\ lastOp' \in {"load_profiles", "__init__"}
    /\ lastIO' # "read_fails"

\* C15: save_profiles() followed by load_profiles() into a fresh store
\* reproduces an equivalent collection (same order, usernames, ids and every
\* numeric and cosmetic field), and saving what was loaded writes the same
\* document again, so further save/load cycles change nothing.
C15_SaveLoadRoundTrip ==
    [][ (lastOp = "save_profiles" /\ lastIO = "ok" /\ LoadedReadable) =>
          /\ lastIO' = "ok"
          /\ ProfilesOf(users', objs') = ProfilesOf(users, objs)
          /\ save_profiles_eff(users', objs', "ok") = doc' ]_vars

C15_Witness ==
    /\ lastOp = "__init__"
    /\ lastIO = "ok"
    /\ Len(users) = 2
    /\ \E i \in 1..2 : ~objs[users[i]].is_active /\ objs[users[i]].coins = 40
    /\ \A i \in 1..2 : "user_id" \in DOMAIN doc.profiles[i]
    /\ doc = Document(ProfilesOf(users, objs))

\* the value a field of a profile takes when the entry does not give it;
\* user_id and created_date are drawn anew
FieldDefaults ==
    [username |-> "", display_name |-> "", experience_points |-> 0, coins |-> 100,
     is_active |-> TRUE, eye_scale |-> 10, current_outfit |-> "default",
     current_accessory |-> "none", homework_completed |-> 0, days_active |-> 1,
     character_happiness |-> 75]

\* profile p is entry e read leniently: the known keys of e, the default for
\* the fields e lacks, whatever else e carries left aside
LoadedFrom(p, e) ==
    \A k \in DOMAIN FieldDefaults :
        p[k] = IF k \in DOMAIN e THEN e[k] ELSE FieldDefaults[k]

\* C16: when the store loads a document, a key of a profile entry that is
\* not a known profile field is ignored and a known field that is missing
\* takes its default, so the profile carrying such an entry, and every other
\* profile of the document, is loaded.
C16_LoadIgnoresUnknownKeys ==
    [][ (LoadedReadable /\ doc.kind = "json") =>
          /\ Len(users') = Len(doc.profiles)
          /\ \A i \in 1..Len(users') :
                LoadedFrom(objs'[users'[i]], doc.profiles[i]) ]_vars

\* the step read the document and found none, could not read it, or could
\* not build the profiles from it
LoadFailed ==
    /\ lastOp' \in {"load_profiles", "__init__"}
    /\ lastIO' \in {"missing", "read_fails", "parse_fails"}

\* the step called save_profiles, by itself or from create_user or
\* delete_user, and the write failed
SaveFailed ==
    /\ lastOp' \in {"save_profiles", "create_user", "delete_user"}
    /\ lastIO' \in {"open_fails", "write_fails"}

ProgressCall ==
    lastOp' \in {"add_experience", "add_coins", "spend_coins",
                 "UserProfile.complete_homework"}

\* C18: add_experience, add_coins, spend_coins and complete_homework change
\* only the in-memory profile they are called on: the persisted document,
\* the other profiles, the collection and the active reference stay as they
\* are, and the document changes only by save_profiles, create_user or
\* delete_user.
C18_ProgressTouchesOneProfile ==
    [][ /\ ProgressCall =>
              /\ doc' = doc
              /\ users' = users
              /\ current_user' = current_user
              /\ DOMAIN objs' = DOMAIN objs
              /\ \A r \in DOMAIN objs \ {lastArg'.obj} : objs'[r] = objs[r]
        /\ doc' # doc => lastOp' \in {"save_profiles", "create_user", "delete_user"} ]_vars

C18_Witness ==
    /\ lastOp = "spend_coins"
    /\ lastRet = TRUE
    /\ lastArg.obj # current_user
    /\ objs[lastArg.obj].coins = 50
    /\ objs[current_user].coins = 100
    /\ \A i \in 1..Len(doc.profiles) : doc.profiles[i].coins = 100

\* C19: UserProfile.complete_homework() adds exactly 1 to homework_completed,
\* 10 to experience_points and 5 to coins and sets character_happiness to
\* clamp(happiness + 5, 0, 100), changing no other field; on a freshly
\* created profile it yields 1, 10, 105 and 80.
C19_CompleteHomeworkIsFixedComposite ==
    [][ lastOp' = "UserProfile.complete_homework" =>
          LET before == objs[lastArg'.obj]
              after == objs'[lastArg'.obj]
          IN  /\ after.homework_completed = before.homework_completed + 1
              /\ after.experience_points = before.experience_points + 10
              /\ after.coins = before.coins + 5
              /\ after.character_happiness = Clamp(before.character_happiness + 5, 0, 100)
              /\ \A k \in ProfileFields \ {"homework_completed", "experience_points",
                                            "coins", "character_happiness"} :
                    after[k] = before[k]
              /\ before = UserProfile([username |-> before.username,
                                       display_name |-> before.display_name],
                                      before.user_id)
                    => /\ after.homework_completed = 1
                       /\ after.experience_points = 10
                       /\ after.coins = 105
                       /\ after.character_happiness = 80 ]_vars

C19_Witness ==
    /\ lastOp = "UserProfile.complete_homework"
    /\ objs[lastArg.obj].homework_completed = 1
    /\ objs[lastArg.obj].experience_points = 10
    /\ objs[lastArg.obj].coins = 105
    /\ objs[lastArg.obj].character_happiness = 100

\* C20: spend_coins(amount) returns False and leaves the balance unchanged
\* when the balance is less than amount; otherwise it returns True and
\* decreases the balance by exactly amount.
C20_SpendCoinsChecksBalance ==
    [][ lastOp' = "spend_coins" =>
          LET before == objs[lastArg'.obj]
              after == objs'[lastArg'.obj]
          IN  IF before.coins < lastArg'.amount
              THEN lastRet' = FALSE /\ after = before
              ELSE /\ lastRet' = TRUE
                   /\ after.coins = before.coins - lastArg'.amount
                   /\ after = [before EXCEPT !.coins = after.coins] ]_vars

C20_Witness ==
    /\ lastOp = "spend_coins"
    /\ lastRet = FALSE
    /\ lastArg.amount = 200
    /\ objs[lastArg.obj].coins = 105

\* the step is a call of a reward operation of a profile
RewardCall == lastOp' \in {"add_experience", "UserProfile.complete_homework"}

\* C21: across any sequence of add_experience and complete_homework calls on
\* a profile its experience_points never decrease, and its level, which is
\* experience_points // 100 + 1, is at least 1 and never decreases.
C21_ExperienceAndLevelMonotone ==
    [][ RewardCall =>
          LET before == objs[lastArg'.obj]
              after == objs'[lastArg'.obj]
          IN  /\ after.experience_points >= before.experience_points
              /\ get_level(after) >= get_level(before)
              /\ get_level(after) >= 1 ]_vars

\* C22: for every input scale, set_eye_scale, on a profile and on the
\* controller with bounds [0.5, 2.0], leaves the stored eye scale equal to
\* clamp(scale, 0.5, 2.0): 3.0 yields 2.0, 0.1 yields 0.5 and 1.5 is stored
\* unchanged (scales in tenths).
C22_EyeScaleClamped ==
    [][ /\ (lastOp' = "set_eye_scale" /\ lastArg'.kind = "num") =>
              /\ eye_scale' = Clamp(lastArg'.val, 5, 20)
              /\ lastArg'.val = 30 => eye_scale' = 20
              /\ lastArg'.val = 1 => eye_scale' = 5
              /\ lastArg'.val = 15 => eye_scale' = 15
        /\ lastOp' = "UserProfile.set_eye_scale" =>
              /\ objs'[lastArg'.obj].eye_scale = Clamp(lastArg'.amount, 5, 20)
              /\ lastArg'.amount = 30 => objs'[lastArg'.obj].eye_scale = 20
              /\ lastArg'.amount = 1 => objs'[lastArg'.obj].eye_scale = 5
              /\ lastArg'.amount = 15 => objs'[lastArg'.obj].eye_scale = 15 ]_vars

C22_Witness ==
    /\ lastOp = "set_eye_scale"
    /\ lastArg.kind = "num"
    /\ lastArg.val = 1
    /\ eye_scale = 5
    /\ \E r \in DOMAIN objs : objs[r].eye_scale = 20

\* C30: CharacterController.set_eye_scale, set_outfit and set_accessory
\* record the requested value (the clamped scale, the lower-cased and
\* stripped name) before they touch the host scene, so eye_scale,
\* current_outfit and current_accessory equal the last requested value after
\* every call, also when it returns False because the armature, eye bones,
\* mesh, material slot, material or accessory object is missing.
C30_RequestRecordedBeforeScene ==
    [][ /\ (lastOp' = "set_eye_scale" /\ lastArg'.kind = "num") =>
              eye_scale' = Clamp(lastArg'.val, eye_scale_bounds(game_config).min,
                                 eye_scale_bounds(game_config).max)
        /\ (lastOp' = "set_outfit" /\ lastArg'.kind = "str") =>
              current_outfit' = Strip(Lower(lastArg'.val))
        /\ (lastOp' = "set_accessory" /\ lastArg'.kind = "str") =>
              current_accessory' = Strip(Lower(lastArg'.val)) ]_vars

C30_Witness ==
    /\ lastOp = "set_outfit"
    /\ lastArg.kind = "str"
    /\ lastArg.val = " Uniform "
    /\ lastRet = FALSE
    /\ ~scene.mesh
    /\ current_outfit = "uniform"
    /\ current_accessory = "glasses"
    /\ eye_scale = 20

C29_CoinsNeverNegative ==
    \A r \in DOMAIN objs : objs[r].coins >= 0

\* the values an option can take: the happiness-scale options lie on the
\* happiness scale, every other option is not negative
ValidOption(key, value) ==
    IF key \in {"starting_happiness", "happy_threshold", "sad_threshold"}
    THEN value >= MIN_HAPPINESS /\ value <= MAX_HAPPINESS
    ELSE value >= 0

\* C24: constructing the configuration never raises; a file that cannot be
\* read as a JSON object leaves every option at its default; otherwise every
\* recognized option holds the document's value when the document has a
\* valid one and its default when the option is absent or its value is
\* invalid, and the keys of the document that are no options are ignored.
C24_ConfigLoadFallsBackToDefaults ==
    [][lastOp' = "GameConfiguration.__init__" =>
          /\ ~raised'
          /\ DOMAIN game_config' = DOMAIN GameConfigData
          /\ IF config_doc.kind # "json" \/ lastIO' # "ok"
             THEN game_config' = GameConfigData
             ELSE \A key \in DOMAIN GameConfigData :
                     game_config'[key] =
                        IF key \in DOMAIN config_doc.data /\ ValidOption(key, config_doc.data[key])
                        THEN config_doc.data[key]
                        ELSE GameConfigData[key]]_vars

\* C25: a play_animation call that returns True leaves is_animating True;
\* while is_animating is True every play_animation call returns False and
\* leaves the bound action, the happiness and is_animating as they were;
\* stop_animation always leaves is_animating False, and no other operation
\* takes is_animating from True to False.
C25_AnimatingUntilStopped ==
    [][/\ (lastOp' = "play_animation" /\ lastRet' = TRUE) => is_animating'
       /\ (is_animating /\ lastOp' = "play_animation") =>
             /\ lastRet' = FALSE
             /\ UNCHANGED <<bound_action, happiness, is_animating>>
       /\ lastOp' = "stop_animation" => ~is_animating'
       /\ (is_animating /\ ~is_animating') => lastOp' = "stop_animation"]_vars

\* a play_animation call was turned down while an animation started earlier
\* is still running
C25_Witness ==
    /\ lastOp = "play_animation"
    /\ lastRet = FALSE
    /\ is_animating
    /\ bound_action # None

\* the animation name a play_animation argument resolves to
ResolvedAnimation(animation) ==
    IF animation.kind = "enum" THEN animation.val
    ELSE IF animation.kind = "str" THEN Lower(animation.val)
    ELSE None

\* C26: a play_animation call that returns True for the dance animation
\* leaves happiness at clamp(h + configured dance bonus, 0, 100); a call that
\* returns True for another animation leaves happiness unchanged; a call
\* that returns False leaves happiness and is_animating unchanged and fires
\* no animation-started callback.
C26_PlayAnimationHappinessFrame ==
    [][lastOp' = "play_animation" =>
          IF lastRet' = TRUE
          THEN IF ResolvedAnimation(lastArg') = DANCE
               THEN happiness' = Clamp(happiness + dance_bonus(game_config), MIN_HAPPINESS, MAX_HAPPINESS)
               ELSE happiness' = happiness
          ELSE /\ UNCHANGED <<happiness, is_animating>>
               /\ started' = <<>>]_vars

\* how often the update handler stands in the host's handler list
UpdateHandlers == {i \in 1..Len(frame_change_pre) : frame_change_pre[i] = "update"}

\* the handler stands in the list at most once, and exactly when the game runs
HandlerIffRunning ==
    /\ Cardinality(UpdateHandlers) <= 1
    /\ (UpdateHandlers # {}) <=> is_running

\* C28: whatever start_game and stop_game calls were made, the update
\* handler stands in the host's frame-change handler list at most once, and
\* it stands there exactly when is_running is True; an update() made while
\* is_running is False changes no state.
C28_HandlerIffRunning ==
    [][/\ HandlerIffRunning
       /\ HandlerIffRunning'
       /\ (lastOp' = "update" /\ ~is_running) =>
             UNCHANGED <<ccVars, umVars, custVars, cfgVars, gmVars>>]_vars

\* update() was called after the game was started and stopped again, next
\* to another handler of the host
C28_Witness ==
    /\ lastOp = "update"
    /\ ~is_running
    /\ character_controller
    /\ UpdateHandlers = {}
    /\ Len(frame_change_pre) = 1

\* what increase_happiness makes of happiness h
Raised(h, amount) == IF amount > 0 THEN Clamp(h + amount, MIN_HAPPINESS, MAX_HAPPINESS) ELSE h

\* the step is a GameManager.complete_homework call
HomeworkEvent == lastOp' = "GameManager.complete_homework"

\* nothing of the store, the controller or the document changes
HomeworkChangesNothing == UNCHANGED <<ccVars, umVars, custVars>>

\* the configured xp and coins are added to the active profile object, and
\* no other field and no other profile changes
HomeworkRewardsActiveOnly ==
    /\ UNCHANGED <<users, current_user>>
    /\ DOMAIN objs' = DOMAIN objs
    /\ \A r \in DOMAIN objs :
          objs'[r] = IF r = current_user
                     THEN [objs[r] EXCEPT
                             !.experience_points = @ + game_config.homework_xp_reward,
                             !.coins = @ + game_config.homework_coin_reward]
                     ELSE objs[r]

\* C27 as stated: without a logged-in user nothing changes; with one, the
\* rewards go to the active profile only, the happiness of an existing
\* controller becomes clamp(h + reward), and the document then represents
\* the whole store.
C27_HomeworkRewardsAndPersists ==
    [][HomeworkEvent =>
          IF current_user = NoRef
          THEN HomeworkChangesNothing
          ELSE /\ HomeworkRewardsActiveOnly
               /\ happiness' = IF character_controller
                               THEN Clamp(happiness + game_config.homework_happiness_reward,
                                          MIN_HAPPINESS, MAX_HAPPINESS)
                               ELSE happiness
               /\ DocumentIsCollection]_vars

\* C27, amended: without a logged-in user nothing changes; with one, the
\* rewards go to the active profile only; an existing controller gets
\* increase_happiness(reward), which clamps and does nothing for a reward
\* that is not positive, and then the dance, which adds the dance bonus the
\* same way when the animation starts; save_profiles is called last, and the
\* document represents the collection when the write succeeds, is the old
\* one when the file could not be opened and an unparseable one when the
\* write broke off.
C27_HomeworkRewardsDanceAndSaves ==
    [][HomeworkEvent =>
          IF current_user = NoRef
          THEN HomeworkChangesNothing
          ELSE /\ HomeworkRewardsActiveOnly
               /\ happiness' =
                    IF ~character_controller THEN happiness
                    ELSE IF ~is_animating /\ is_animating'
                         THEN Raised(Raised(happiness, game_config.homework_happiness_reward),
                                     dance_bonus(game_config))
                         ELSE Raised(happiness, game_config.homework_happiness_reward)
               /\ ~character_controller => UNCHANGED is_animating
               /\ lastIO' \in SaveOutcomes
               /\ lastIO' = "ok" => DocumentIsCollection
               /\ lastIO' = "open_fails" => doc' = doc
               /\ lastIO' = "write_fails" => doc' = Malformed]_vars

\* homework was completed for a logged-in user while a controller danced for
\* it, and the document took the rewards
C27_Witness ==
    /\ lastOp = "GameManager.complete_homework"
    /\ current_user # NoRef
    /\ character_controller
    /\ is_animating
    /\ started = <<>>
    /\ bound_action = DANCE
    /\ lastIO = "ok"
    /\ objs[current_user].experience_points > 0
    /\ doc = Document(ProfilesOf(users, objs))

====
